---- MODULE Spec2Model ----
(***************************************************************************)
(* A model of mkideal/log: the asynchronous dispatch engine of the root    *)
(* package (printer.go, entry.go) and the older engine of package logger   *)
(* (logger/logger.go).  Every goroutine is a thread with a program         *)
(* counter; one step is one access to shared memory, one channel or        *)
(* condition-variable operation, or one entry into / return from a sink    *)
(* call.                                                                   *)
(***************************************************************************)
EXTENDS Integers, Sequences, FiniteSets, TLC

\* ---------------------------------------------------------------- bounds
NCallers == 2       \* application threads that call into the engine
MaxStart == 2       \* Start()/Run() calls made in one behaviour
MaxShutdown == 2    \* Shutdown()/Quit() calls made in one behaviour
MaxFlush == 1       \* Flush() calls made in one behaviour
MaxLogs == 2        \* log calls made in one behaviour
MaxConfig == 2      \* SetLevel and NoHeader calls made in one behaviour
ChanCap == 2        \* capacity of the logger's writeQueue (8192 in the code)
MaxWrites == 3      \* Write calls on the file sink in one behaviour
MaxDay == 2         \* calendar days the clock passes through (the first is day 1)
MaxRouterOps == 4           \* Write and Close calls on the router in one behaviour
MaxSinks == 3               \* inner sinks of a composite sink
MaxMixOps == 2              \* calls on a composite sink in one behaviour
MaxGlobalOps == 3           \* calls on the package-level API in one behaviour
MaxChain == 5               \* steps of an If chain
MaxTimedStart == 1          \* Start calls on the printer with timed enqueue
MaxTimedShutdown == 1       \* Shutdown calls on it
MaxTimedLogs == 3           \* log calls on it
TimedCap == 1               \* capacity of its queue (8192 in the code)

\* ------------------------------------------------------ program constants
LvFATAL == 1
LvERROR == 2
LvWARN == 3
LvINFO == 4
LvDEBUG == 5
LvTRACE == 6
FATAL == 0                  \* package logger numbers its levels from 0
ERROR == 1
WARN == 2
INFO == 3
DEBUG == 4
TRACE == 5
HeaderLen == 34             \* "[T 2000/01/02 03:04:05.006 ???:0] "
QueueInitCap == 64          \* make([]*entry, 0, 64)
FlushChanCap == 1           \* make(chan chan struct{}, 1)
StackBanner == 76           \* the BEGIN and END STACK TRACE lines of a FATAL entry
PoolCeiling == 256          \* putEntry drops entries longer than this
BannerLen == 75             \* "File opened at: ...\n" and "Built with gc go1.21.0 for linux/amd64\n"
BufSize == 16384            \* bufio.NewWriterSize(p.file, 1<<14)
IndexMod == 1000            \* p.fileIndex = (p.fileIndex + 1) % 1000

\* ---------------------------------------------------------------- threads
Callers == 1..NCallers
Workers == (NCallers + 1)..(NCallers + MaxStart)
Threads == Callers \cup Workers
MaxObj == MaxLogs + 1       \* entry objects: new(entry) of newPrinter + one per call
Nil == 0

VARIABLES
    \* the process
    proc,        \* "alive", "exit1" (os.Exit(1)) or "panic" (a goroutine panicked)
    exitBy,      \* the thread that called os.Exit, Nil before
    pc,          \* Threads -> position in the code
    \* printer (printer.go:55-76)
    async,       \* p.async; p.queue, p.cond, p.flush, p.quit, p.wait are nil iff ~async
    level,       \* p.level
    running,     \* p.running
    queue,       \* p.queue: [in, out], two slices [a: array, n: length]
    arrs,        \* the heap of backing arrays of the queue's slices: [cap, el]
    queueMu,     \* holder of p.queueMu (p.cond.L), Nil if free
    waiters,     \* workers parked in p.cond.Wait
    flush,       \* p.flush: buffered channel of capacity 1 (of response channels)
    respClosed,  \* response channels (named by the Flush caller) that are closed
    quit,        \* p.quit is closed
    wait,        \* p.wait is closed
    writeLocker, \* holder of p.writeLocker, Nil if free
    entryList,   \* p.entryList: head of the free-list
    next,        \* entry -> entry.next
    ent,         \* entry -> [rec, lvl, len]: the record it holds
    nobj,        \* entries allocated so far
    \* logger (logger/logger.go:63-77); it shares level, running, async,
    \* writeLocker and the pool (bufferList) with the printer's variables
    writeQueue,  \* l.writeQueue: buffered channel of [quit, e]
    noHeader,    \* l.noHeader
    \* the sink (p.writer, l.provider)
    written,     \* calls of Write so far, in order: [rec, lvl, by]
    closeCalls,  \* calls of Close so far
    inSink,      \* threads inside Write or Close
    \* locals of the threads
    cur,         \* the entry a thread is handling
    batch,       \* worker: the slice popAll returned
    bi,          \* worker: index into batch
    ctx,         \* worker: "run", "flush" or "quit": who called popAll
    resp,        \* worker: the response channel taken from p.flush
    fatal,       \* callers inside Printf(LvFATAL)
    \* the scenario and the history
    budget,      \* how many calls of each kind the application makes
    nStart, nShutdown, nFlush, nLogs, nWorkers,
    owner,       \* record -> the caller that logged it
    enq,         \* records pushed onto the queue so far, in push order
    fsnap,       \* caller -> records enqueued before its Flush call began
    ssnap,       \* caller -> records whose log call returned before its Shutdown call
    returned,    \* records whose log call has returned
    frec,        \* caller -> the record of its FATAL call (Nil: none emitted)
    calls,       \* record -> [lv, thr, len]: level, threshold read, bytes rendered
    outdone,     \* records whose call has got past output
    \* the file sink (provider.File) and its surroundings
    f,           \* the File: config.MaxSize, currentSize, createdTime, fileIndex,
                 \* writer, file, written
    disk,        \* the files opened so far: [name, day, index, open, bytes]
    today,       \* the calendar day time.Now() gives
    fhist,       \* the Write calls on the file sink that have returned
    fcall,       \* the Write call in progress (it holds p.mu), or NoCall
    links,       \* the symlink <dir>/<filename>: what it points at, and the
                 \* calls of os.Remove and os.Symlink on it so far
    tick,        \* the flush goroutine of newFile: "idle", or "in" with p.mu held
    \* the router (multiFile, unnamed/part_007)
    ropts,       \* w.options: Dir and the directory of each level
    rfiles,      \* w.files: slot -> file sink, Nil for a nil slot
    sinks,       \* the file sinks newFile has made: [dir, writes, closes]
    rhist,       \* the calls on the router so far
    \* the composite sinks (mixProvider, multiWriter)
    mkind,       \* which of the two composite types the sink is
    mn,          \* the number of inner sinks, in configuration order 1..mn
    morder,      \* the inner calls so far, in order: [call, sink]
    mrets,       \* the calls on the composite that have returned
    \* ParseLevel and MustParseLevel
    pin,         \* the string given
    pres,        \* the outcome of the call on it, or NoOutcome
    \* the package-level API: the global printer (gprinter) or logger (glogger)
    gl,          \* the global object: its kind, level, whether it runs
    ghist,       \* the calls on the package-level API that have returned
    \* an IfLogger chain
    il,          \* the IfLogger byte the chain holds now
    ichain,      \* the steps of the chain so far
    \* the printer with a bounded queue and timed enqueue (unnamed/part_029)
    td           \* its fields, its goroutines' positions and its history

ctl == <<proc, exitBy>>
que == <<queue, arrs, queueMu, waiters>>
chans == <<flush, respClosed, quit, wait>>
pool == <<entryList, next, ent, nobj>>
sink == <<written, closeCalls, inSink, writeLocker>>
wloc == <<batch, bi, ctx, resp>>
cnt == <<budget, nStart, nShutdown, nFlush, nLogs, nWorkers>>
hist == <<owner, enq, fsnap, ssnap, returned, frec>>
lgr == <<writeQueue, noHeader, calls, outdone>>
fsink == <<f, disk, today, fhist, fcall, links, tick>>
router == <<ropts, rfiles, sinks, rhist>>
mixv == <<mkind, mn, morder, mrets>>
parse == <<pin, pres>>
glob == <<gl, ghist>>
ifl == <<il, ichain>>
api == <<glob, ifl, td>>
ext == <<fsink, router, mixv, parse, api>>
engine == <<ctl, pc, async, level, running, que, chans, pool, sink, cur, wloc,
            fatal, cnt, hist, lgr>>
vars == <<engine, ext>>

\* ------------------------------------------------------------ entry.go
\* A slice is [a |-> backing array (Nil for a nil slice), n |-> length].
NilSlice == [a |-> Nil, n |-> 0]

\* append's growth of a full backing array (the Go runtime doubles small ones).
GrowCap(old, need) == IF 2 * old >= need THEN 2 * old ELSE need

\* s with position i set to e (i is at most Len(s) + 1).
Put(s, i, e) == IF i <= Len(s) THEN [s EXCEPT ![i] = e] ELSE Append(s, e)

\* func newQueue: in has capacity 64, out is nil.
newQueue == [in |-> [a |-> 1, n |-> 0], out |-> NilSlice]

\* func (q *queue) size
size(q) == q.in.n

\* func (q *queue) push: q.in = append(q.in, e).  Gives the queue and the heap.
push(q, h, e) ==
    LET s == q.in
        inPlace == s.a # Nil /\ s.n < h[s.a].cap
        old == IF s.a = Nil THEN <<>> ELSE SubSeq(h[s.a].el, 1, s.n)
        oldCap == IF s.a = Nil THEN 0 ELSE h[s.a].cap
    IN  IF inPlace
        THEN [queue |-> [q EXCEPT !.in.n = s.n + 1],
              arrs |-> [h EXCEPT ![s.a].el = Put(@, s.n + 1, e)]]
        ELSE [queue |-> [q EXCEPT !.in = [a |-> Len(h) + 1, n |-> s.n + 1]],
              arrs |-> Append(h, [cap |-> GrowCap(oldCap, s.n + 1),
                                  el |-> Append(old, e)])]

\* func (q *queue) popAll: swap in and out, truncate in; the result is q.out.
popAll(q) == [in |-> [a |-> q.out.a, n |-> 0], out |-> q.in]

\* The i-th element of slice s as the heap holds it now.
At(h, s, i) == h[s.a].el[i]

\* ---------------------------------------------------- printer.go: the pool
\* func (p *printer) getEntry: pop the free-list head (and Reset it) or allocate.
getEntry(head, nx, en, n) ==
    IF head # Nil
    THEN [e |-> head, entryList |-> nx[head], next |-> [nx EXCEPT ![head] = Nil],
          ent |-> [en EXCEPT ![head] = [rec |-> Nil, lvl |-> @.lvl, len |-> 0]],
          nobj |-> n]
    ELSE [e |-> n + 1, entryList |-> head, next |-> nx,
          ent |-> [en EXCEPT ![n + 1] = [rec |-> Nil, lvl |-> 0, len |-> 0]],
          nobj |-> n + 1]

\* putEntry without the ceiling: every entry goes back on the free-list.
putEntryNoCeiling(head, nx, en, e) ==
    [entryList |-> e, next |-> [nx EXCEPT ![e] = head]]

\* func (p *printer) putEntry: entries longer than 256 bytes are dropped.
putEntry(head, nx, en, e) ==
    IF en[e].len > PoolCeiling
    THEN [entryList |-> head, next |-> nx]
    ELSE [entryList |-> e, next |-> [nx EXCEPT ![e] = head]]

\* p.writer.Write(e.level, e.Bytes(), e.headerLen) as thread t enters it.
WriteCall(t, e) == Append(written, [rec |-> ent[e].rec, lvl |-> ent[e].lvl, by |-> t])

\* p.cond.Signal(): wakes one parked worker, if there is one.  pcNew is pc
\* after the signalling thread's own move.
Signal(pcNew) ==
    IF waiters = {}
    THEN pc' = pcNew /\ waiters' = waiters
    ELSE \E w \in waiters :
            /\ pc' = [pcNew EXCEPT ![w] = "run_wake"]
            /\ waiters' = waiters \ {w}

Alive == proc = "alive"

\* No symlink in the log directory, and no call made on it.
NoLinks == [target |-> <<>>, removes |-> 0, symlinks |-> 0]

\* A nil *bufio.Writer.
NoWriter == [to |-> Nil, buf |-> 0, err |-> FALSE]

\* The File struct before newFile has filled it (maxSize is config.MaxSize;
\* createdTime 0 is the zero time.Time, a day no clock gives).  typ tells the
\* two file sinks apart: "File" of package provider (unnamed/part_012) and
\* "file" of the root package (unnamed/part_007), which differ in closeCurrent.
FileZero(maxSize) ==
    [typ |-> "File", maxSize |-> maxSize, noSymlink |-> FALSE, currentSize |-> 0,
     createdTime |-> 0, fileIndex |-> -1, writer |-> NoWriter, file |-> Nil,
     written |-> FALSE]

\* No composite sink is built.
NoMix == mkind = "none" /\ mn = 0 /\ morder = <<>> /\ mrets = <<>>

\* No level is being parsed.
NoParse == pin = <<>> /\ pres = [op |-> "none"]

\* Nothing of the package-level API, no chain and no timed printer is in use.
NoGlobal == gl = [api |-> "none"] /\ ghist = <<>>
NoIf == il = 0 /\ ichain = <<>>
NoTimed == td = [at |-> "none"]
NoApi == NoGlobal /\ NoIf /\ NoTimed

\* A behaviour of an engine alone: the sinks of package provider are not built.
NoSinks ==
    /\ f = FileZero(0) /\ disk = <<>> /\ today = 1 /\ fhist = <<>>
    /\ fcall = [at |-> "idle"] /\ links = NoLinks /\ tick = "idle"
    /\ ropts = <<>> /\ rfiles = <<>> /\ sinks = <<>> /\ rhist = <<>>
    /\ NoMix /\ NoParse /\ NoApi

\* Inputs of the printer's operations.
\* The calls the application makes in one behaviour: restarts with one log
\* call, or one start with several log calls, or repeated shutdowns.
Budgets ==
    { [start |-> MaxStart, shutdown |-> 1, flush |-> MaxFlush, logs |-> 1],
      [start |-> 1, shutdown |-> 1, flush |-> MaxFlush, logs |-> MaxLogs],
      [start |-> 1, shutdown |-> MaxShutdown, flush |-> 0, logs |-> 1] }
PrintLevels == {LvFATAL, LvINFO}
StartLevels == {0, LvINFO}
MsgLens == {100}

\* ------------------------------------------------- printer.go: operations
\* func newPrinter(writer, async): the state after construction.
InitState ==
    /\ proc = "alive" /\ exitBy = Nil
    /\ pc = [t \in Threads |-> IF t \in Callers THEN "idle" ELSE "none"]
    /\ async \in BOOLEAN
    /\ level \in StartLevels
    /\ running = 0
    /\ queue = newQueue
    /\ arrs = <<[cap |-> QueueInitCap, el |-> <<>>]>>
    /\ queueMu = Nil /\ waiters = {}
    /\ flush = <<>> /\ respClosed = {} /\ quit = FALSE /\ wait = FALSE
    /\ writeLocker = Nil
    /\ entryList = 1 /\ nobj = 1
    /\ next = [e \in 1..MaxObj |-> Nil]
    /\ ent = [e \in 1..MaxObj |-> [rec |-> Nil, lvl |-> 0, len |-> 0]]
    /\ written = <<>> /\ closeCalls = 0 /\ inSink = {}
    /\ cur = [t \in Threads |-> Nil]
    /\ batch = [w \in Workers |-> NilSlice]
    /\ bi = [w \in Workers |-> 0]
    /\ ctx = [w \in Workers |-> "run"]
    /\ resp = [w \in Workers |-> Nil]
    /\ fatal = {}
    /\ nStart = 0 /\ nShutdown = 0 /\ nFlush = 0 /\ nLogs = 0
    /\ nWorkers = 0
    /\ owner = [r \in 1..MaxLogs |-> Nil]
    /\ enq = <<>> /\ returned = {}
    /\ fsnap = [t \in Callers |-> {}]
    /\ ssnap = [t \in Callers |-> {}]
    /\ frec = [t \in Callers |-> Nil]
    /\ writeQueue = <<>> /\ noHeader = 0
    /\ calls = <<>> /\ outdone = {}

InitPrinter == InitState /\ budget \in Budgets /\ NoSinks

\* func (p *printer) Start: nothing on a synchronous printer or when the
\* compare-and-swap of running from 0 to 1 fails; else go p.run().
Start(t) ==
    /\ Alive /\ pc[t] = "idle" /\ nStart < budget.start
    /\ nStart' = nStart + 1
    /\ IF async /\ running = 0
       THEN /\ running' = 1
            /\ nWorkers' = nWorkers + 1
            /\ pc' = [pc EXCEPT ![NCallers + nWorkers + 1] = "run_lock"]
       ELSE UNCHANGED <<running, nWorkers, pc>>
    /\ UNCHANGED <<ctl, async, level, que, chans, pool, sink, cur, wloc, fatal,
                   budget, nShutdown, nFlush, nLogs, hist, lgr, ext>>

\* A variant in which the holder leaves the critical section with the lock
\* still held.
UnlockKept(t) == t

\* The value of p.queueMu as its holder unlocks it.
Unlock(t) == Nil

\* run line 113 and flushAll line 141: the worker's p.cond.L.Unlock(), made
\* before writeEntries.
RunUnlock(w) == Unlock(w)

\* run, line 108-113: p.cond.L.Lock(); if p.queue.size() == 0 { p.cond.Wait() }
\* (Wait registers the waiter and releases the lock in one step); otherwise
\* entries := p.queue.popAll(); p.cond.L.Unlock().
RunLock(w) ==
    /\ Alive /\ pc[w] = "run_lock" /\ queueMu = Nil
    /\ IF size(queue) = 0
       THEN /\ waiters' = waiters \cup {w}
            /\ pc' = [pc EXCEPT ![w] = "run_wait"]
            /\ UNCHANGED <<queue, queueMu, batch, bi>>
       ELSE /\ queue' = popAll(queue)
            /\ batch' = [batch EXCEPT ![w] = queue'.out]
            /\ bi' = [bi EXCEPT ![w] = 1]
            /\ queueMu' = RunUnlock(w)
            /\ pc' = [pc EXCEPT ![w] = "write"]
            /\ UNCHANGED waiters
    /\ ctx' = [ctx EXCEPT ![w] = "run"]
    /\ UNCHANGED <<ctl, async, level, running, arrs, chans, pool, sink, cur,
                   resp, fatal, cnt, hist, lgr, ext>>

\* run line 110-113, a signalled worker as Wait returns with the lock taken
\* again, and flushAll line 139-141: entries := p.queue.popAll();
\* p.cond.L.Unlock().
Pop(w) ==
    /\ Alive /\ pc[w] \in {"run_wake", "fa_lock"} /\ queueMu = Nil
    /\ queue' = popAll(queue)
    /\ batch' = [batch EXCEPT ![w] = queue'.out]
    /\ bi' = [bi EXCEPT ![w] = 1]
    /\ queueMu' = RunUnlock(w)
    /\ pc' = [pc EXCEPT ![w] = "write"]
    /\ UNCHANGED <<ctl, async, level, running, arrs, waiters, chans, pool, sink, cur,
                   ctx, resp, fatal, cnt, hist, lgr, ext>>

\* writeEntries/writeEntry: the next entry of the batch enters p.writer.Write.
WriteEnter(w) ==
    /\ Alive /\ pc[w] = "write" /\ bi[w] <= batch[w].n
    /\ LET e == At(arrs, batch[w], bi[w])
       IN  /\ cur' = [cur EXCEPT ![w] = e]
           /\ written' = WriteCall(w, e)
    /\ inSink' = inSink \cup {w}
    /\ pc' = [pc EXCEPT ![w] = "in_write"]
    /\ UNCHANGED <<ctl, async, level, running, que, chans, pool, closeCalls,
                   writeLocker, wloc, fatal, cnt, hist, lgr, ext>>

\* writeEntry: Write returns, then p.putEntry(e).
WriteExit(w) ==
    /\ Alive /\ pc[w] = "in_write"
    /\ inSink' = inSink \ {w}
    /\ LET r == putEntry(entryList, next, ent, cur[w])
       IN  entryList' = r.entryList /\ next' = r.next
    /\ bi' = [bi EXCEPT ![w] = @ + 1]
    /\ cur' = [cur EXCEPT ![w] = Nil]
    /\ pc' = [pc EXCEPT ![w] = "write"]
    /\ UNCHANGED <<ctl, async, level, running, que, chans, ent, nobj, written,
                   closeCalls, writeLocker, batch, ctx, resp, fatal, cnt, hist, lgr, ext>>

\* The batch is written.  In run: on to consumeSignals.  In consumeSignals after
\* a flush request: close(resp), continue.  After quit: close(p.wait), return
\* true, and run ends; closing the closed p.wait panics.
BatchDone(w) ==
    /\ Alive /\ pc[w] = "write" /\ bi[w] > batch[w].n
    /\ CASE ctx[w] = "run" ->
              /\ pc' = [pc EXCEPT ![w] = "signals"]
              /\ UNCHANGED <<proc, respClosed, wait, resp>>
         [] ctx[w] = "flush" ->
              /\ respClosed' = respClosed \cup {resp[w]}
              /\ resp' = [resp EXCEPT ![w] = Nil]
              /\ pc' = [pc EXCEPT ![w] = "signals"]
              /\ UNCHANGED <<proc, wait>>
         [] ctx[w] = "quit" ->
              /\ IF wait THEN proc' = "panic" /\ UNCHANGED wait
                         ELSE wait' = TRUE /\ UNCHANGED proc
              /\ pc' = [pc EXCEPT ![w] = "done"]
              /\ UNCHANGED <<respClosed, resp>>
    /\ UNCHANGED <<exitBy, async, level, running, que, flush, quit, pool, sink, cur,
                   batch, bi, ctx, fatal, cnt, hist, lgr, ext>>

\* consumeSignals: the select.  A ready case is taken (any one when both are
\* ready); default only when neither is.
Signals(w) ==
    /\ Alive /\ pc[w] = "signals"
    /\ \/ /\ flush # <<>>
          /\ resp' = [resp EXCEPT ![w] = Head(flush)]
          /\ flush' = Tail(flush)
          /\ ctx' = [ctx EXCEPT ![w] = "flush"]
          /\ pc' = [pc EXCEPT ![w] = "fa_lock"]
       \/ /\ quit
          /\ ctx' = [ctx EXCEPT ![w] = "quit"]
          /\ pc' = [pc EXCEPT ![w] = "fa_lock"]
          /\ UNCHANGED <<flush, resp>>
       \/ /\ flush = <<>> /\ ~quit
          /\ pc' = [pc EXCEPT ![w] = "run_lock"]
          /\ UNCHANGED <<flush, resp, ctx>>
    /\ UNCHANGED <<ctl, async, level, running, que, respClosed, quit, wait, pool,
                   sink, cur, batch, bi, fatal, cnt, hist, lgr, ext>>

\* Where a caller goes when output, or Shutdown, returns inside Printf
\* ("done_noop": Shutdown returned at line 154 or 157, having done nothing).
AfterOutput(t, fs) == IF t \in fs THEN "sd_cas" ELSE "idle"
AfterShutdown(t) == IF t \in fatal THEN "exit" ELSE "done_shutdown"
AfterNoShutdown(t) == IF t \in fatal THEN "exit" ELSE "done_noop"

\* func (p *printer) Shutdown, line 153-158: return on a synchronous printer
\* or when the compare-and-swap of running from 1 to 0 fails.
ShutdownCas(t) ==
    /\ IF async /\ running = 1
       THEN running' = 0 /\ pc' = [pc EXCEPT ![t] = "sd_closequit"]
       ELSE UNCHANGED running /\ pc' = [pc EXCEPT ![t] = AfterNoShutdown(t)]
    /\ UNCHANGED <<ctl, async, level, que, chans, pool, sink, cur, wloc, fatal,
                   budget, nStart, nFlush, nLogs, nWorkers,
                   owner, enq, fsnap, returned, frec, lgr, ext>>

\* Shutdown called by the application.
Shutdown(t) ==
    /\ Alive /\ pc[t] = "idle" /\ nShutdown < budget.shutdown
    /\ nShutdown' = nShutdown + 1
    /\ ssnap' = [ssnap EXCEPT ![t] = returned]
    /\ ShutdownCas(t)

\* Printf, line 194: p.Shutdown() after a call at LvFATAL.
FatalShutdown(t) ==
    /\ Alive /\ pc[t] = "sd_cas"
    /\ UNCHANGED <<nShutdown, ssnap>>
    /\ ShutdownCas(t)

\* Shutdown, line 159: close(p.quit); closing a closed channel panics.
ShutdownCloseQuit(t) ==
    /\ Alive /\ pc[t] = "sd_closequit"
    /\ IF quit THEN proc' = "panic" /\ UNCHANGED quit
               ELSE quit' = TRUE /\ UNCHANGED proc
    /\ pc' = [pc EXCEPT ![t] = "sd_signal"]
    /\ UNCHANGED <<exitBy, async, level, running, que, flush, respClosed, wait, pool,
                   sink, cur, wloc, fatal, cnt, hist, lgr, ext>>

\* Shutdown, line 160: p.cond.Signal()
ShutdownSignal(t) ==
    /\ Alive /\ pc[t] = "sd_signal"
    /\ Signal([pc EXCEPT ![t] = "sd_wait"])
    /\ UNCHANGED <<ctl, async, level, running, queue, arrs, queueMu, chans, pool,
                   sink, cur, wloc, fatal, cnt, hist, lgr, ext>>

\* Shutdown, line 161-162: <-p.wait, then p.writer.Close() is entered.
ShutdownClose(t) ==
    /\ Alive /\ pc[t] = "sd_wait" /\ wait
    /\ closeCalls' = closeCalls + 1
    /\ inSink' = inSink \cup {t}
    /\ pc' = [pc EXCEPT ![t] = "in_close"]
    /\ UNCHANGED <<ctl, async, level, running, que, chans, pool, written,
                   writeLocker, cur, wloc, fatal, cnt, hist, lgr, ext>>

\* Shutdown, line 162-163: Close returns, Shutdown returns.
ShutdownReturn(t) ==
    /\ Alive /\ pc[t] = "in_close"
    /\ inSink' = inSink \ {t}
    /\ pc' = [pc EXCEPT ![t] = AfterShutdown(t)]
    /\ UNCHANGED <<ctl, async, level, running, que, chans, pool, written,
                   closeCalls, writeLocker, cur, wloc, fatal, cnt, hist, lgr, ext>>

\* func (p *printer) Flush, line 167: the call begins.
FlushCall(t) ==
    /\ Alive /\ pc[t] = "idle" /\ nFlush < budget.flush
    /\ nFlush' = nFlush + 1
    /\ fsnap' = [fsnap EXCEPT ![t] = {enq[i] : i \in 1..Len(enq)}]
    /\ pc' = [pc EXCEPT ![t] = "fl_send"]
    /\ UNCHANGED <<ctl, async, level, running, que, chans, pool, sink, cur, wloc,
                   fatal, budget, nStart, nShutdown, nLogs, nWorkers,
                   owner, enq, ssnap, returned, frec, lgr, ext>>

\* Flush, line 168: p.flush <- wait.  The send blocks while the buffer is full,
\* and for ever on the nil channel of a synchronous printer.
FlushSend(t) ==
    /\ Alive /\ pc[t] = "fl_send" /\ async /\ Len(flush) < FlushChanCap
    /\ flush' = Append(flush, t)
    /\ respClosed' = respClosed \ {t}
    /\ pc' = [pc EXCEPT ![t] = "fl_signal"]
    /\ UNCHANGED <<ctl, async, level, running, que, quit, wait, pool, sink, cur,
                   wloc, fatal, cnt, hist, lgr, ext>>

\* Flush, line 169: p.cond.Signal()
FlushSignal(t) ==
    /\ Alive /\ pc[t] = "fl_signal"
    /\ Signal([pc EXCEPT ![t] = "fl_wait"])
    /\ UNCHANGED <<ctl, async, level, running, queue, arrs, queueMu, chans, pool,
                   sink, cur, wloc, fatal, cnt, hist, lgr, ext>>

\* Flush, line 170: <-wait, and Flush returns.
FlushWait(t) ==
    /\ Alive /\ pc[t] = "fl_wait" /\ t \in respClosed
    /\ pc' = [pc EXCEPT ![t] = "done_flush"]
    /\ UNCHANGED <<ctl, async, level, running, que, chans, pool, sink, cur, wloc,
                   fatal, cnt, hist, lgr, ext>>

\* func (p *printer) Printf, line 190, with output up to line 319: the level
\* gate, the entry taken from the pool and filled (a FATAL entry carries the
\* stack trace), and the choice between the queue and the synchronous write.
\* A call at LvFATAL goes on to Shutdown and os.Exit(1) also when gated out.
Printf(t, lv, n) ==
    /\ Alive /\ pc[t] = "idle" /\ nLogs < budget.logs
    /\ nLogs' = nLogs + 1
    /\ LET rec == nLogs + 1
           fs == IF lv = LvFATAL THEN fatal \cup {t} ELSE fatal
           g == getEntry(entryList, next, ent, nobj)
           len == IF lv = LvFATAL THEN n + StackBanner ELSE n
       IN  /\ fatal' = fs
           /\ IF level >= lv
              THEN /\ entryList' = g.entryList /\ next' = g.next /\ nobj' = g.nobj
                   /\ ent' = [g.ent EXCEPT ![g.e] = [rec |-> rec, lvl |-> lv, len |-> len]]
                   /\ cur' = [cur EXCEPT ![t] = g.e]
                   /\ owner' = [owner EXCEPT ![rec] = t]
                   /\ frec' = IF lv = LvFATAL THEN [frec EXCEPT ![t] = rec] ELSE frec
                   /\ pc' = [pc EXCEPT ![t] = IF async /\ running # 0
                                               THEN "out_lock" ELSE "out_sync"]
              ELSE /\ pc' = [pc EXCEPT ![t] = AfterOutput(t, fs)]
                   /\ UNCHANGED <<pool, cur, owner, frec>>
    /\ UNCHANGED <<ctl, async, level, running, que, chans, sink, wloc,
                   budget, nStart, nShutdown, nFlush, nWorkers,
                   enq, fsnap, ssnap, returned, lgr, ext>>

\* output, line 320-324: Lock, push, Signal if the queue now holds one entry,
\* Unlock.
OutPush(t) ==
    /\ Alive /\ pc[t] = "out_lock" /\ queueMu = Nil
    /\ LET r == push(queue, arrs, cur[t])
           pcNew == [pc EXCEPT ![t] = AfterOutput(t, fatal)]
       IN  /\ queue' = r.queue /\ arrs' = r.arrs
           /\ IF size(r.queue) = 1
              THEN Signal(pcNew)
              ELSE pc' = pcNew /\ UNCHANGED waiters
    /\ queueMu' = Unlock(t)
    /\ enq' = Append(enq, ent[cur[t]].rec)
    /\ returned' = IF t \in fatal THEN returned ELSE returned \cup {ent[cur[t]].rec}
    /\ cur' = [cur EXCEPT ![t] = Nil]
    /\ UNCHANGED <<ctl, async, level, running, chans, pool, sink, wloc, fatal, cnt,
                   owner, fsnap, ssnap, frec, lgr, ext>>

\* A variant of the synchronous write that does not wait for p.writeLocker.
OutSyncNoLock(t) ==
    /\ Alive /\ pc[t] = "out_sync"
    /\ writeLocker' = t
    /\ written' = WriteCall(t, cur[t])
    /\ inSink' = inSink \cup {t}
    /\ pc' = [pc EXCEPT ![t] = "in_sync"]
    /\ UNCHANGED <<ctl, async, level, running, que, chans, pool, closeCalls, cur,
                   wloc, fatal, cnt, hist, lgr, ext>>

\* output, line 326-327: p.writeLocker.Lock(), and writeEntry enters Write.
OutSync(t) ==
    /\ Alive /\ pc[t] = "out_sync" /\ writeLocker = Nil
    /\ writeLocker' = t
    /\ written' = WriteCall(t, cur[t])
    /\ inSink' = inSink \cup {t}
    /\ pc' = [pc EXCEPT ![t] = "in_sync"]
    /\ UNCHANGED <<ctl, async, level, running, que, chans, pool, closeCalls, cur,
                   wloc, fatal, cnt, hist, lgr, ext>>

\* output, line 327-328: Write returns, putEntry, p.writeLocker.Unlock().
OutSyncExit(t) ==
    /\ Alive /\ pc[t] = "in_sync"
    /\ inSink' = inSink \ {t}
    /\ LET r == putEntry(entryList, next, ent, cur[t])
       IN  entryList' = r.entryList /\ next' = r.next
    /\ writeLocker' = Nil
    /\ returned' = IF t \in fatal THEN returned ELSE returned \cup {ent[cur[t]].rec}
    /\ cur' = [cur EXCEPT ![t] = Nil]
    /\ pc' = [pc EXCEPT ![t] = AfterOutput(t, fatal)]
    /\ UNCHANGED <<ctl, async, level, running, que, chans, ent, nobj, written,
                   closeCalls, wloc, fatal, cnt, owner, enq, fsnap, ssnap, frec, lgr, ext>>

\* Printf, line 195: os.Exit(1)
Exit(t) ==
    /\ Alive /\ pc[t] = "exit"
    /\ proc' = "exit1" /\ exitBy' = t
    /\ UNCHANGED <<pc, async, level, running, que, chans, pool, sink, cur, wloc,
                   fatal, cnt, hist, lgr, ext>>

\* A finished call returns to the application.
Return(t) ==
    /\ Alive /\ pc[t] \in {"done_flush", "done_shutdown", "done_noop"}
    /\ pc' = [pc EXCEPT ![t] = "idle"]
    /\ UNCHANGED <<ctl, async, level, running, que, chans, pool, sink, cur, wloc,
                   fatal, cnt, hist, lgr, ext>>

\* A step of a worker goroutine.
WorkerStep(w) ==
    \/ RunLock(w) \/ Pop(w)
    \/ WriteEnter(w) \/ WriteExit(w) \/ BatchDone(w) \/ Signals(w)

\* A step inside a call that has begun.
CallStep(t) ==
    \/ ShutdownCloseQuit(t) \/ ShutdownSignal(t) \/ ShutdownClose(t)
    \/ ShutdownReturn(t) \/ FlushSend(t) \/ FlushSignal(t) \/ FlushWait(t)
    \/ OutPush(t) \/ OutSync(t) \/ OutSyncExit(t) \/ FatalShutdown(t)
    \/ Exit(t) \/ Return(t)

\* The application begins a call.
NewCall(t) ==
    \/ Start(t) \/ Shutdown(t) \/ FlushCall(t)
    \/ \E lv \in PrintLevels, n \in MsgLens : Printf(t, lv, n)

NextPrinter ==
    \/ \E w \in Workers : WorkerStep(w)
    \/ \E t \in Callers : CallStep(t) \/ NewCall(t)

SpecPrinter == InitPrinter /\ [][NextPrinter]_vars

\* The same engine with one call of each kind, under the scheduling the Go
\* runtime gives: a goroutine that can take a step eventually takes one.  The
\* application is not obliged to make further calls.
InitOnce ==
    /\ InitState /\ budget = [start |-> 1, shutdown |-> 1, flush |-> 1, logs |-> 1]
    /\ NoSinks

FairPrinter ==
    /\ InitOnce /\ [][NextPrinter]_vars
    /\ \A w \in Workers : WF_vars(WorkerStep(w))
    /\ \A t \in Callers : WF_vars(CallStep(t))

\* The asynchronous engine restarted after a Shutdown, with several log calls.
InitRestart ==
    /\ InitState /\ async /\ level = LvINFO
    /\ budget = [start |-> MaxStart, shutdown |-> 1, flush |-> 0, logs |-> MaxLogs]
    /\ NoSinks

\* The steps inside Shutdown and inside a log call below FATAL.
RestartStep(t) ==
    \/ ShutdownCloseQuit(t) \/ ShutdownSignal(t) \/ ShutdownClose(t)
    \/ ShutdownReturn(t) \/ OutPush(t) \/ OutSync(t) \/ OutSyncExit(t)
    \/ Return(t)

NextRestart ==
    \/ \E w \in Workers : WorkerStep(w)
    \/ \E t \in Callers : RestartStep(t) \/ Start(t) \/ Shutdown(t)
    \/ \E t \in Callers : Printf(t, LvINFO, 100)

SpecRestart == InitRestart /\ [][NextRestart]_vars

\* ------------------------------------------------ logger/logger.go
\* The logger keeps its buffers in bufferList exactly as the printer keeps its
\* entries in entryList (getBuffer and putBuffer are getEntry and putEntry), so
\* the pool variables serve both.  The variables of the printer's queue and
\* channels are not used by the logger.
unused == <<que, chans, wloc, enq, fsnap, ssnap, frec>>

LoggerLevels == FATAL..TRACE

\* The calls the application makes in one behaviour.
LoggerBudgets ==
    { [start |-> 1, shutdown |-> 0, logs |-> MaxLogs, config |-> MaxConfig],
      [start |-> MaxStart, shutdown |-> MaxShutdown, logs |-> 1, config |-> 0] }
LogLevels == LoggerLevels
SetLevels == {ERROR, WARN, TRACE}
FormatLens == {0, 5, 300}

\* func newLogger(provider, async): level is the zero value, FATAL.
InitLogger == InitState /\ level = FATAL /\ budget \in LoggerBudgets /\ NoSinks

\* func (l *logger) Run: nothing on a synchronous logger; AddInt32 counts the
\* call, and only the call that makes running 1 starts the goroutine.
Run(t) ==
    /\ Alive /\ pc[t] = "idle" /\ nStart < budget.start
    /\ nStart' = nStart + 1
    /\ IF async
       THEN /\ running' = running + 1
            /\ IF running + 1 > 1
               THEN UNCHANGED <<pc, nWorkers>>
               ELSE /\ nWorkers' = nWorkers + 1
                    /\ pc' = [pc EXCEPT ![NCallers + nWorkers + 1] = "lg_recv"]
       ELSE UNCHANGED <<running, pc, nWorkers>>
    /\ UNCHANGED <<ctl, async, level, pool, sink, cur, fatal, budget, nShutdown,
                   nFlush, nLogs, owner, returned, lgr, unused, ext>>

\* Run, line 125-129: the goroutine receives from l.writeQueue; a quit buffer
\* ends the loop, any other buffer goes to writeBuffer, which enters Write.
LgRecv(w) ==
    /\ Alive /\ pc[w] = "lg_recv" /\ Len(writeQueue) > 0
    /\ writeQueue' = Tail(writeQueue)
    /\ IF Head(writeQueue).quit
       THEN /\ pc' = [pc EXCEPT ![w] = "lg_stop"]
            /\ UNCHANGED <<cur, written, inSink>>
       ELSE /\ cur' = [cur EXCEPT ![w] = Head(writeQueue).e]
            /\ written' = WriteCall(w, Head(writeQueue).e)
            /\ inSink' = inSink \cup {w}
            /\ pc' = [pc EXCEPT ![w] = "lg_write"]
    /\ UNCHANGED <<ctl, async, level, running, pool, closeCalls, writeLocker, fatal,
                   cnt, owner, returned, noHeader, calls, outdone, unused, ext>>

\* func (l *logger) writeBuffer, line 137-142, when Write returns: a FATAL
\* buffer goes on to provider.Close(), any other is put back into the pool.
WriteBufferDone(t, fromSync) ==
    /\ inSink' = IF ent[cur[t]].lvl = FATAL THEN inSink ELSE inSink \ {t}
    /\ closeCalls' = IF ent[cur[t]].lvl = FATAL THEN closeCalls + 1 ELSE closeCalls
    /\ LET r == putEntry(entryList, next, ent, cur[t])
       IN  IF ent[cur[t]].lvl = FATAL
           THEN UNCHANGED <<entryList, next, cur, writeLocker>>
           ELSE /\ entryList' = r.entryList /\ next' = r.next
                /\ cur' = [cur EXCEPT ![t] = Nil]
                /\ writeLocker' = IF fromSync THEN Nil ELSE writeLocker
    /\ UNCHANGED <<ent, nobj, written>>

LgWriteExit(w) ==
    /\ Alive /\ pc[w] = "lg_write"
    /\ WriteBufferDone(w, FALSE)
    /\ pc' = [pc EXCEPT ![w] = IF ent[cur[w]].lvl = FATAL THEN "lg_close" ELSE "lg_recv"]
    /\ UNCHANGED <<ctl, async, level, running, fatal, cnt, owner, returned, lgr, unused, ext>>

\* writeBuffer, line 139-140: Close returns and os.Exit(1) ends the process.
LgExit(t) ==
    /\ Alive /\ pc[t] = "lg_close"
    /\ inSink' = inSink \ {t}
    /\ proc' = "exit1" /\ exitBy' = t
    /\ UNCHANGED <<pc, async, level, running, pool, written, closeCalls, writeLocker,
                   cur, fatal, cnt, owner, returned, lgr, unused, ext>>

\* Run, line 131: atomic.StoreInt32(&l.running, 0)
LgStop(w) ==
    /\ Alive /\ pc[w] = "lg_stop"
    /\ running' = 0
    /\ pc' = [pc EXCEPT ![w] = "lg_notify"]
    /\ UNCHANGED <<ctl, async, level, pool, sink, cur, fatal, cnt, owner, returned,
                   lgr, unused, ext>>

\* Run, line 132, with Quit, line 150-151: l.quitNotify is unbuffered, so the
\* send and a receive happen together; the receiver goes on to Close.
LgNotify(w) ==
    /\ Alive /\ pc[w] = "lg_notify"
    /\ \E t \in Callers :
          /\ pc[t] = "q_wait"
          /\ pc' = [pc EXCEPT ![w] = "done", ![t] = "q_close"]
          /\ inSink' = inSink \cup {t}
    /\ closeCalls' = closeCalls + 1
    /\ UNCHANGED <<ctl, async, level, running, pool, written, writeLocker, cur,
                   fatal, cnt, owner, returned, lgr, unused, ext>>

\* func (l *logger) Quit, line 146-148: nothing on a synchronous logger or
\* when running is 0.
Quit(t) ==
    /\ Alive /\ pc[t] = "idle" /\ nShutdown < budget.shutdown
    /\ nShutdown' = nShutdown + 1
    /\ pc' = [pc EXCEPT ![t] = IF ~async \/ running = 0 THEN "idle" ELSE "q_send"]
    /\ UNCHANGED <<ctl, async, level, running, pool, sink, cur, fatal, budget,
                   nStart, nFlush, nLogs, nWorkers, owner, returned, lgr, unused, ext>>

\* Quit, line 149: l.writeQueue <- &buffer{quit: true}, when there is room.
QuitSend(t) ==
    /\ Alive /\ pc[t] = "q_send" /\ Len(writeQueue) < ChanCap
    /\ writeQueue' = Append(writeQueue, [quit |-> TRUE, e |-> Nil])
    /\ pc' = [pc EXCEPT ![t] = "q_wait"]
    /\ UNCHANGED <<ctl, async, level, running, pool, sink, cur, fatal, cnt, owner,
                   returned, noHeader, calls, outdone, unused, ext>>

\* Quit, line 151-152: Close returns, and Quit with it.
QuitReturn(t) ==
    /\ Alive /\ pc[t] = "q_close"
    /\ inSink' = inSink \ {t}
    /\ pc' = [pc EXCEPT ![t] = "idle"]
    /\ UNCHANGED <<ctl, async, level, running, pool, written, closeCalls,
                   writeLocker, cur, fatal, cnt, owner, returned, lgr, unused, ext>>

\* func (l *logger) NoHeader
NoHeader(t) ==
    /\ Alive /\ pc[t] = "idle" /\ nFlush < budget.config
    /\ nFlush' = nFlush + 1
    /\ noHeader' = 1
    /\ UNCHANGED <<ctl, pc, async, level, running, pool, sink, cur, fatal, budget,
                   nStart, nShutdown, nLogs, nWorkers, owner, returned, writeQueue,
                   calls, outdone, unused, ext>>

\* func (l *logger) SetLevel
SetLevel(t, lv) ==
    /\ Alive /\ pc[t] = "idle" /\ nFlush < budget.config
    /\ nFlush' = nFlush + 1
    /\ level' = lv
    /\ UNCHANGED <<ctl, pc, async, running, pool, sink, cur, fatal, budget,
                   nStart, nShutdown, nLogs, nWorkers, owner, returned, lgr, unused, ext>>

\* func (l *logger) header and output up to line 251: the bytes of the record
\* of a call at level lv with a message of n bytes.  The header is left out
\* after NoHeader; a non-empty buffer is ended with a newline; a FATAL record
\* carries the stack trace.
Rendered(lv, n, nh) ==
    LET hdr == IF nh # 0 THEN 0 ELSE HeaderLen
        body == IF hdr + n > 0 THEN hdr + n + 1 ELSE 0
    IN  IF lv = FATAL THEN body + StackBanner ELSE body

\* A variant of the level test that leaves out the threshold itself.
GateStrict(lv, thr) == IF lv = FATAL THEN TRUE ELSE thr > lv

\* The test a level method makes before output: Trace to Error compare the
\* threshold with their level, Fatal makes no test.
Gate(lv, thr) == IF lv = FATAL THEN TRUE ELSE thr >= lv

\* func (l *logger) Trace, Debug, Info, Warn, Error, Fatal, with output up to
\* line 256: the test of the level, the buffer taken from the pool and filled,
\* the return on an empty buffer, and the choice between the channel and the
\* synchronous write.
Log(t, lv, n) ==
    /\ Alive /\ pc[t] = "idle" /\ nLogs < budget.logs
    /\ nLogs' = nLogs + 1
    /\ LET rec == nLogs + 1
           g == getEntry(entryList, next, ent, nobj)
           len == Rendered(lv, n, noHeader)
       IN  /\ calls' = Append(calls, [lv |-> lv, thr |-> level, len |-> len])
           /\ owner' = [owner EXCEPT ![rec] = t]
           /\ fatal' = IF lv = FATAL THEN fatal \cup {t} ELSE fatal
           /\ IF Gate(lv, level)
              THEN /\ entryList' = g.entryList /\ next' = g.next /\ nobj' = g.nobj
                   /\ IF len = 0
                      THEN /\ ent' = g.ent
                           /\ outdone' = outdone \cup {rec}
                           /\ UNCHANGED <<pc, cur>>
                      ELSE /\ ent' = [g.ent EXCEPT ![g.e] =
                                         [rec |-> rec, lvl |-> lv, len |-> len]]
                           /\ cur' = [cur EXCEPT ![t] = g.e]
                           /\ pc' = [pc EXCEPT ![t] = IF async THEN "lg_send"
                                                       ELSE "lg_sync"]
                           /\ UNCHANGED outdone
              ELSE /\ outdone' = outdone \cup {rec}
                   /\ UNCHANGED <<pool, cur, pc>>
    /\ UNCHANGED <<ctl, async, level, running, sink, budget, nStart, nShutdown,
                   nFlush, nWorkers, returned, writeQueue, noHeader, unused, ext>>

\* output, line 257: l.writeQueue <- buf, when there is room; Fatal then
\* blocks in select {}.
LgSend(t) ==
    /\ Alive /\ pc[t] = "lg_send" /\ Len(writeQueue) < ChanCap
    /\ writeQueue' = Append(writeQueue, [quit |-> FALSE, e |-> cur[t]])
    /\ outdone' = outdone \cup {ent[cur[t]].rec}
    /\ cur' = [cur EXCEPT ![t] = Nil]
    /\ pc' = [pc EXCEPT ![t] = IF t \in fatal THEN "blocked" ELSE "idle"]
    /\ UNCHANGED <<ctl, async, level, running, pool, sink, fatal, cnt, owner,
                   returned, noHeader, calls, unused, ext>>

\* output, line 259-260: l.writeLocker.Lock(), and writeBuffer enters Write.
LgSync(t) ==
    /\ Alive /\ pc[t] = "lg_sync" /\ writeLocker = Nil
    /\ writeLocker' = t
    /\ written' = WriteCall(t, cur[t])
    /\ inSink' = inSink \cup {t}
    /\ pc' = [pc EXCEPT ![t] = "lg_insync"]
    /\ UNCHANGED <<ctl, async, level, running, pool, closeCalls, cur, fatal, cnt,
                   owner, returned, lgr, unused, ext>>

\* output, line 260-261: writeBuffer after Write, then l.writeLocker.Unlock().
LgSyncExit(t) ==
    /\ Alive /\ pc[t] = "lg_insync"
    /\ WriteBufferDone(t, TRUE)
    /\ outdone' = outdone \cup {ent[cur[t]].rec}
    /\ pc' = [pc EXCEPT ![t] = IF ent[cur[t]].lvl = FATAL THEN "lg_close" ELSE "idle"]
    /\ UNCHANGED <<ctl, async, level, running, fatal, cnt, owner, returned,
                   writeQueue, noHeader, calls, unused, ext>>

\* A step of the logger's goroutine.
LoggerStep(w) ==
    \/ LgRecv(w) \/ LgWriteExit(w) \/ LgStop(w) \/ LgNotify(w) \/ LgExit(w)

\* A step inside a call of the logger that has begun.
LoggerCallStep(t) ==
    \/ QuitSend(t) \/ QuitReturn(t) \/ LgSend(t) \/ LgSync(t) \/ LgSyncExit(t)
    \/ LgExit(t)

\* The application begins a call of the logger.
LoggerCall(t) ==
    \/ Run(t) \/ Quit(t) \/ NoHeader(t)
    \/ \E lv \in SetLevels : SetLevel(t, lv)
    \/ \E lv \in LogLevels, n \in FormatLens : Log(t, lv, n)

NextLogger ==
    \/ \E w \in Workers : LoggerStep(w)
    \/ \E t \in Callers : LoggerCallStep(t) \/ LoggerCall(t)

SpecLogger == InitLogger /\ [][NextLogger]_vars

\* The logger with one call of each kind, under the scheduling the Go runtime
\* gives.  The application is not obliged to make further calls.
InitLoggerOnce ==
    /\ InitState /\ level = FATAL
    /\ budget = [start |-> 1, shutdown |-> 1, logs |-> 1, config |-> 1]
    /\ NoSinks

FairLogger ==
    /\ InitLoggerOnce /\ [][NextLogger]_vars
    /\ \A w \in Workers : WF_vars(LoggerStep(w))
    /\ \A t \in Callers : WF_vars(LoggerCallStep(t))

\* A logger whose level was raised to DEBUG before use, and an application
\* that runs it once, quits it from both threads and logs short messages at
\* FATAL and INFO, under the same scheduling.
InitLoggerStall ==
    /\ InitState /\ level = DEBUG
    /\ budget = [start |-> 1, shutdown |-> MaxShutdown, logs |-> MaxLogs,
                 config |-> 0]
    /\ NoSinks

StallCall(t) ==
    \/ Run(t) \/ Quit(t)
    \/ \E lv \in {FATAL, INFO} : Log(t, lv, 5)

NextLoggerStall ==
    \/ \E w \in Workers : LoggerStep(w)
    \/ \E t \in Callers : LoggerCallStep(t) \/ StallCall(t)

FairLoggerStall ==
    /\ InitLoggerStall /\ [][NextLoggerStall]_vars
    /\ \A w \in Workers : WF_vars(LoggerStep(w))
    /\ \A t \in Callers : WF_vars(LoggerCallStep(t))

\* ------------------------------------- provider.File (unnamed/part_012)
\* The writer of a File is a bufio.Writer: [to |-> the file it was made for,
\* buf |-> bytes buffered, err |-> its sticky error].  p.mu is held for the
\* whole of Write and of Close, so each is one step.

\* The sink stands alone: the engine's variables keep their initial values.
EngineIdle ==
    /\ InitState /\ async = FALSE /\ level = 0
    /\ budget = [start |-> 0, shutdown |-> 0, flush |-> 0, logs |-> 0]

\* Inputs of the file sink's operations.
FileMaxSizes == {100, 200}
WriteLens == {25, 76, 100, 101, 125}

\* A variant of the day test that never sees a new day.
AlwaysSameDay(t1, t2) == TRUE

\* func isSameDay
isSameDay(t1, t2) == t1 = t2

\* bufio.Writer.Flush on writer w over the files d: the buffered bytes go to
\* the file if it is open; if not, the writer keeps them and its error.
bufioFlush(w, d) ==
    IF w.err THEN [w |-> w, d |-> d, err |-> TRUE]
    ELSE IF w.buf = 0 THEN [w |-> w, d |-> d, err |-> FALSE]
    ELSE IF d[w.to].open
         THEN [w |-> [w EXCEPT !.buf = 0],
               d |-> [d EXCEPT ![w.to].bytes = @ + w.buf], err |-> FALSE]
         ELSE [w |-> [w EXCEPT !.err = TRUE], d |-> d, err |-> TRUE]

\* bufio.Writer.Write of n bytes: they are buffered while they fit; else the
\* buffer is filled and flushed, or, when empty, the bytes go straight to the
\* file.  Gives the bytes accepted as nn.
bufioWrite(w, d, n) ==
    IF w.err THEN [w |-> w, d |-> d, nn |-> 0, err |-> TRUE]
    ELSE IF w.buf + n <= BufSize
         THEN [w |-> [w EXCEPT !.buf = @ + n], d |-> d, nn |-> n, err |-> FALSE]
    ELSE IF ~d[w.to].open
         THEN [w |-> [w EXCEPT !.err = TRUE, !.buf = IF @ = 0 THEN 0 ELSE BufSize],
               d |-> d, nn |-> IF w.buf = 0 THEN 0 ELSE BufSize - w.buf,
               err |-> TRUE]
    ELSE LET rest == IF w.buf = 0 THEN n ELSE n - (BufSize - w.buf)
             out == IF w.buf = 0 THEN 0 ELSE BufSize
         IN  IF rest > BufSize
             THEN [w |-> [w EXCEPT !.buf = 0],
                   d |-> [d EXCEPT ![w.to].bytes = @ + out + rest],
                   nn |-> n, err |-> FALSE]
             ELSE [w |-> [w EXCEPT !.buf = rest],
                   d |-> [d EXCEPT ![w.to].bytes = @ + out],
                   nn |-> n, err |-> FALSE]

\* A variant of closeCurrent that leaves currentSize as it is.
closeCurrentKeepSize(s, d) ==
    IF s.writer.to # Nil
    THEN LET fl == bufioFlush(s.writer, d)
             d2 == IF s.file # Nil THEN [fl.d EXCEPT ![s.file].open = FALSE] ELSE fl.d
         IN  [s |-> [s EXCEPT !.writer = fl.w, !.written = FALSE], d |-> d2]
    ELSE [s |-> s, d |-> d]

\* func (p *File) closeCurrent: with a writer, Flush, Sync and Close (p.file
\* may be nil, then Sync and Close only return an error); currentSize is 0.
closeCurrent(s, d) ==
    IF s.writer.to # Nil
    THEN LET fl == bufioFlush(s.writer, d)
             d2 == IF s.file # Nil THEN [fl.d EXCEPT ![s.file].open = FALSE] ELSE fl.d
         IN  [s |-> [s EXCEPT !.writer = fl.w, !.written = FALSE, !.currentSize = 0],
              d |-> d2]
    ELSE [s |-> [s EXCEPT !.currentSize = 0], d |-> d]

\* func (w *file) closeCurrent of the root package: the first of Flush, Sync
\* and Close that fails ends the call, and then the file is not closed and
\* written and currentSize stay as they are.  Sync fails on a nil or closed
\* file.
file_closeCurrent(s, d) ==
    IF s.writer.to # Nil
    THEN LET fl == bufioFlush(s.writer, d)
             s1 == [s EXCEPT !.writer = fl.w]
         IN  IF fl.err THEN [s |-> s1, d |-> fl.d]
             ELSE IF s.file = Nil \/ ~fl.d[s.file].open THEN [s |-> s1, d |-> fl.d]
             ELSE [s |-> [s1 EXCEPT !.written = FALSE, !.currentSize = 0],
                   d |-> [fl.d EXCEPT ![s.file].open = FALSE]]
    ELSE [s |-> [s EXCEPT !.currentSize = 0], d |-> d]

\* closeCurrent of the sink's own type.
closeCurrentOf(s, d) ==
    IF s.typ = "file" THEN file_closeCurrent(s, d) ELSE closeCurrent(s, d)

\* A variant of the index that counts on without wrapping.
fileIndexNoWrap(s, now) ==
    IF isSameDay(now, s.createdTime) THEN s.fileIndex + 1 ELSE 0

\* rotate, line 235-239: the index of the file to make at time now.
fileIndexAt(s, now) ==
    IF isSameDay(now, s.createdTime) THEN (s.fileIndex + 1) % IndexMod ELSE 0

\* A variant of the file name that carries the index always.
fileNameIndexed(s) == <<"filename", s.createdTime, s.fileIndex>>

\* create, line 263-273: the name of the file, "<filename>.<date>" with
\* ".<index>" after it when the index is greater than 0.
fileName(s) ==
    IF s.fileIndex > 0 THEN <<"filename", s.createdTime, s.fileIndex>>
    ELSE <<"filename", s.createdTime>>

\* A variant of the symlink step that leaves the symlink where it points.
relinkStale(s, l, name) ==
    IF s.noSymlink THEN l
    ELSE [l EXCEPT !.removes = @ + 1, !.symlinks = @ + 1]

\* create, line 286-290: os.Remove(symlink); os.Symlink(name, symlink), unless
\* NoSymlink is set.
relink(s, l, name) ==
    IF s.noSymlink THEN l
    ELSE [target |-> name, removes |-> l.removes + 1, symlinks |-> l.symlinks + 1]

\* func (p *File) create, where ok tells whether os.OpenFile succeeds: the
\* name of the file, and the symlink after it.
create(s, l, ok) ==
    [name |-> fileName(s), l |-> IF ok THEN relink(s, l, fileName(s)) ELSE l,
     err |-> ~ok]

\* func (p *File) rotate at time now, where ok tells whether create succeeds:
\* closeCurrent, the next index, createdTime, and then either the return of
\* create's error with p.file nil and p.writer as it was, or a new file with
\* a new writer and the banner written to it.
rotate(s, d, l, now, ok) ==
    LET c == closeCurrentOf(s, d)
        idx == fileIndexAt(c.s, now)
        s1 == [c.s EXCEPT !.fileIndex = idx, !.createdTime = now]
        cr == create(s1, l, ok)
        id == Len(c.d) + 1
    IN  IF ~ok
        THEN [s |-> [s1 EXCEPT !.file = Nil], d |-> c.d, l |-> cr.l, err |-> TRUE]
        ELSE [s |-> [s1 EXCEPT !.file = id,
                               !.writer = [to |-> id, buf |-> 0, err |-> FALSE],
                               !.currentSize = @ + BannerLen],
              d |-> Append(c.d, [name |-> cr.name, day |-> now, index |-> idx,
                                 open |-> TRUE, bytes |-> BannerLen]),
              l |-> cr.l, err |-> FALSE]

\* The record of a Write call of n bytes begun on File s at time now: ret is
\* what Write returns, to the file whose writer took the bytes, nn how many
\* it took, before and after whether the two rotations were made, size
\* currentSize after the append, at the place in the code the call has reached.
NewCallRec(s, now, n) ==
    [n |-> n, day |-> now, created |-> s.createdTime, nofile |-> s.file = Nil,
     rotErr |-> FALSE, ret |-> "nil", to |-> Nil, nn |-> 0, before |-> FALSE, after |-> FALSE,
     size |-> s.currentSize, at |-> "day"]

NoCall == [at |-> "idle"]

\* p.mu is free: no Write is under way and the flush goroutine is not in its
\* critical section (Close is one step).
muFree == fcall.at = "idle" /\ tick = "idle"

\* func newFile(config): the state after construction, rotate(time.Now()) on
\* the zero File, whether create succeeds or not.
InitFile ==
    /\ EngineIdle
    /\ today = 1 /\ fhist = <<>> /\ fcall = NoCall /\ tick = "idle"
    /\ ropts = <<>> /\ rfiles = <<>> /\ sinks = <<>> /\ rhist = <<>>
    /\ NoMix /\ NoParse /\ NoApi
    /\ \E m \in FileMaxSizes, ok \in BOOLEAN, ns \in BOOLEAN :
          LET r == rotate([FileZero(m) EXCEPT !.noSymlink = ns], <<>>, NoLinks, 1, ok)
          IN  f = r.s /\ disk = r.d /\ links = r.l

\* func (p *File) Write, line 193-199: p.mu.Lock(), the return of
\* errWriterIsNil when p.writer is nil, and time.Now().
FileWrite(n) ==
    /\ muFree /\ Len(fhist) < MaxWrites
    /\ IF f.writer.to = Nil
       THEN /\ fhist' = Append(fhist, [NewCallRec(f, today, n) EXCEPT
                                          !.ret = "errWriterIsNil", !.at = "done"])
            /\ UNCHANGED fcall
       ELSE /\ fcall' = NewCallRec(f, today, n)
            /\ UNCHANGED fhist
    /\ UNCHANGED <<engine, router, mixv, parse, api, f, disk, today, links, tick>>

\* Write, line 200-204: on a new day rotate, and return its error if it
\* fails; ok tells whether create succeeds.
WriteDay(ok) ==
    /\ fcall.at = "day"
    /\ IF isSameDay(fcall.day, f.createdTime)
       THEN /\ fcall' = [fcall EXCEPT !.at = "append"]
            /\ UNCHANGED <<f, disk, fhist, links>>
       ELSE LET r == rotate(f, disk, links, fcall.day, ok)
            IN  /\ f' = r.s /\ disk' = r.d /\ links' = r.l
                /\ IF r.err
                   THEN /\ fhist' = Append(fhist, [fcall EXCEPT !.ret = "err",
                                                      !.rotErr = TRUE,
                                                      !.before = TRUE, !.at = "done"])
                        /\ fcall' = NoCall
                   ELSE /\ fcall' = [fcall EXCEPT !.before = TRUE, !.at = "append"]
                        /\ UNCHANGED fhist
    /\ UNCHANGED <<engine, router, mixv, parse, api, today, tick>>

\* Write, line 205-207: p.writer.Write(data), written, currentSize.
WriteAppend ==
    /\ fcall.at = "append"
    /\ LET w == bufioWrite(f.writer, disk, fcall.n)
       IN  /\ f' = [f EXCEPT !.writer = w.w, !.written = TRUE,
                             !.currentSize = @ + w.nn]
           /\ disk' = w.d
           /\ fcall' = [fcall EXCEPT !.ret = IF w.err THEN "err" ELSE "nil",
                                     !.to = f.writer.to, !.nn = w.nn,
                                     !.size = f.currentSize + w.nn, !.at = "size"]
    /\ UNCHANGED <<engine, router, mixv, parse, api, today, fhist, links, tick>>

\* Write, line 208-211: rotate when currentSize has reached MaxSize (the
\* error of this rotate is dropped), and return the error of the append.
WriteSize(ok) ==
    /\ fcall.at = "size"
    /\ IF f.currentSize >= f.maxSize
       THEN LET r == rotate(f, disk, links, fcall.day, ok)
            IN  /\ f' = r.s /\ disk' = r.d /\ links' = r.l
                /\ fhist' = Append(fhist, [fcall EXCEPT !.after = TRUE,
                                                  !.rotErr = r.err, !.at = "done"])
       ELSE /\ fhist' = Append(fhist, [fcall EXCEPT !.at = "done"])
            /\ UNCHANGED <<f, disk, links>>
    /\ fcall' = NoCall
    /\ UNCHANGED <<engine, router, mixv, parse, api, today, tick>>

\* func (p *File) Close
FileClose ==
    /\ muFree /\ Len(fhist) < MaxWrites /\ f.writer.to # Nil
    /\ f.currentSize # 0 \/ f.written \/ (f.file # Nil /\ disk[f.file].open)
    /\ LET c == closeCurrentOf(f, disk)
       IN  f' = c.s /\ disk' = c.d
    /\ fhist' = Append(fhist, [NewCallRec(f, today, 0) EXCEPT !.at = "close"])
    /\ UNCHANGED <<engine, router, mixv, parse, api, today, fcall, links, tick>>

\* A variant of the goroutine's Lock that does not wait for p.mu.
tickNoLock == tick = "idle"

\* newFile, line 178-179: a tick of time.Tick(time.Second) comes and the
\* goroutine takes p.mu.
tickLock == muFree

TickLock ==
    /\ tickLock
    /\ tick' = "in"
    /\ UNCHANGED <<engine, router, mixv, parse, api, f, disk, today, fhist, fcall,
                   links>>

\* newFile, line 180-185: if f.written, f.writer.Flush(), f.file.Sync() and
\* written = false; f.mu.Unlock().
TickFlush ==
    /\ tick = "in"
    /\ IF f.written
       THEN LET fl == bufioFlush(f.writer, disk)
            IN  /\ f' = [f EXCEPT !.writer = fl.w, !.written = FALSE]
                /\ disk' = fl.d
       ELSE UNCHANGED <<f, disk>>
    /\ tick' = "idle"
    /\ UNCHANGED <<engine, router, mixv, parse, api, today, fhist, fcall, links>>

\* Midnight passes: time.Now() gives the next day.
NextDay ==
    /\ today < MaxDay
    /\ today' = today + 1
    /\ UNCHANGED <<engine, router, mixv, parse, api, f, disk, fhist, fcall, links,
                   tick>>

NextFile ==
    \/ \E n \in WriteLens : FileWrite(n)
    \/ \E ok \in BOOLEAN : WriteDay(ok) \/ WriteSize(ok)
    \/ WriteAppend
    \/ FileClose
    \/ TickLock
    \/ TickFlush
    \/ NextDay

SpecFile == InitFile /\ [][NextFile]_vars

\* The sink late on a day of many rotations: the File as its rotate finds it
\* with index k - 1 on day 1, and then that rotate, which opens the file of
\* index k.  The files closed before are left out of disk: nothing reads them.
LateIndexes == {998, 999}

InitFileIndex ==
    /\ EngineIdle
    /\ today = 1 /\ fhist = <<>> /\ fcall = NoCall /\ tick = "idle"
    /\ ropts = <<>> /\ rfiles = <<>> /\ sinks = <<>> /\ rhist = <<>>
    /\ NoMix /\ NoParse /\ NoApi
    /\ \E k \in LateIndexes, ns \in BOOLEAN :
          LET s == [FileZero(100) EXCEPT !.noSymlink = ns, !.createdTime = 1,
                                         !.fileIndex = k - 1]
              r == rotate(s, <<>>, NoLinks, 1, TRUE)
          IN  f = r.s /\ disk = r.d /\ links = r.l

SpecFileIndex == InitFileIndex /\ [][NextFile]_vars

\* The file sink of the root package (unnamed/part_007): newFile is the same
\* code, rotate(time.Now()) on the zero file.
InitRootFile ==
    /\ EngineIdle
    /\ today = 1 /\ fhist = <<>> /\ fcall = NoCall /\ tick = "idle"
    /\ ropts = <<>> /\ rfiles = <<>> /\ sinks = <<>> /\ rhist = <<>>
    /\ NoMix /\ NoParse /\ NoApi
    /\ \E m \in FileMaxSizes, ok \in BOOLEAN, ns \in BOOLEAN :
          LET r == rotate([FileZero(m) EXCEPT !.typ = "file", !.noSymlink = ns], <<>>, NoLinks, 1, ok)
          IN  f = r.s /\ disk = r.d /\ links = r.l

SpecRootFile == InitRootFile /\ [][NextFile]_vars

\* ------------------------------------------- multiFile (unnamed/part_007)
\* A path is [abs |-> whether it begins with a separator, segs |-> its
\* elements, sp |-> 0 for the clean spelling, another number for a spelling
\* such as "./error" or "error/" of the same path].
Cwd == <<"cwd">>
Dot == [abs |-> FALSE, segs |-> <<>>, sp |-> 0]
Root == [abs |-> TRUE, segs |-> <<>>, sp |-> 0]

\* filepath.Join(a, b) for non-empty a and b: Clean(a + "/" + b).
Join(a, b) == [abs |-> a.abs, segs |-> a.segs \o b.segs, sp |-> 0]

\* func absPath: filepath.Abs, which cleans and puts the working directory
\* before a relative path.
absPath(path) ==
    IF path.abs THEN [path EXCEPT !.sp = 0]
    ELSE [abs |-> TRUE, segs |-> Cwd \o path.segs, sp |-> 0]

\* func (level Level) index
index(lv) == lv - 1

\* Inputs of the router: options.Dir, the directories of LvFATAL and LvERROR
\* (the other levels keep their defaults), and the levels written.
RootDirs == {Dot, Root}
LevelDirs ==
    { [abs |-> FALSE, segs |-> <<"fatal">>, sp |-> 0],
      [abs |-> FALSE, segs |-> <<"error">>, sp |-> 0],
      [abs |-> FALSE, segs |-> <<"error">>, sp |-> 1],
      [abs |-> TRUE, segs |-> <<"logs">>, sp |-> 0] }
DefaultDir ==
    [lv \in LvFATAL..LvTRACE |->
        [abs |-> FALSE,
         segs |-> << <<"fatal", "error", "warn", "info", "debug", "trace">>[lv] >>,
         sp |-> 0]]
RouterLevels == {LvFATAL, LvERROR, LvINFO}

\* func (w *multiFile) levelDir
levelDir(o, lv) == o.dirs[lv]

\* func (w *multiFile) optionsOfLevel: the Dir of the file sink of a level.
optionsOfLevel(o, lv) == Join(o.Dir, levelDir(o, lv))

\* w.group as newMultiFile builds it: the levels under each levelDir string.
group(o) ==
    [dir \in {levelDir(o, lv) : lv \in LvFATAL..LvTRACE} |->
        {lv \in LvFATAL..LvTRACE : levelDir(o, lv) = dir}]

\* func (w *multiFile) initForLevel: a new file sink for the slot of lv, and
\* for the nil slots of the levels w.group has under the sink's absolute Dir.
initForLevel(o, files, sk, lv) ==
    LET id == Len(sk) + 1
        dir == optionsOfLevel(o, lv)
        f1 == [files EXCEPT ![index(lv) + 1] = id]
        key == absPath(dir)
        f2 == IF key \in DOMAIN group(o)
              THEN [i \in DOMAIN f1 |->
                      IF f1[i] = Nil /\ \E l \in group(o)[key] : index(l) + 1 = i
                      THEN id ELSE f1[i]]
              ELSE f1
    IN  [files |-> f2,
         sinks |-> Append(sk, [dir |-> dir, writes |-> 0, closes |-> 0])]

\* func newMultiFile(options): no file sink yet.
InitRouter ==
    /\ EngineIdle
    /\ f = FileZero(0) /\ disk = <<>> /\ today = 1 /\ fhist = <<>>
    /\ fcall = NoCall /\ links = NoLinks /\ tick = "idle"
    /\ NoMix /\ NoParse /\ NoApi
    /\ \E d \in RootDirs, df, de \in LevelDirs :
          ropts = [Dir |-> d,
                   dirs |-> [DefaultDir EXCEPT ![LvFATAL] = df, ![LvERROR] = de]]
    /\ rfiles = [i \in 1..6 |-> Nil]
    /\ sinks = <<>> /\ rhist = <<>>

\* func (w *multiFile) Write at a level in range: initForLevel for a nil
\* slot, then Write on the slot's file sink.
RouterWrite(lv) ==
    /\ Len(rhist) < MaxRouterOps
    /\ LET r == IF rfiles[index(lv) + 1] = Nil
                THEN initForLevel(ropts, rfiles, sinks, lv)
                ELSE [files |-> rfiles, sinks |-> sinks]
           id == r.files[index(lv) + 1]
       IN  /\ rfiles' = r.files
           /\ sinks' = [r.sinks EXCEPT ![id].writes = @ + 1]
           /\ rhist' = Append(rhist, [op |-> "Write", lv |-> lv, to |-> id])
    /\ UNCHANGED <<engine, fsink, mixv, parse, api, ropts>>

\* w.files[i].Close() for the slots from i on, in order, each slot then nil.
RECURSIVE CloseFrom(_, _, _)
CloseFrom(files, sk, i) ==
    IF i > Len(files) THEN [files |-> files, sinks |-> sk]
    ELSE IF files[i] = Nil THEN CloseFrom(files, sk, i + 1)
    ELSE CloseFrom([files EXCEPT ![i] = Nil],
                   [sk EXCEPT ![files[i]].closes = @ + 1], i + 1)

\* func (w *multiFile) Close
RouterClose ==
    /\ Len(rhist) < MaxRouterOps
    /\ LET r == CloseFrom(rfiles, sinks, 1)
       IN  rfiles' = r.files /\ sinks' = r.sinks
    /\ rhist' = Append(rhist, [op |-> "Close", lv |-> Nil, to |-> Nil])
    /\ UNCHANGED <<engine, fsink, mixv, parse, api, ropts>>

NextRouter ==
    \/ \E lv \in RouterLevels : RouterWrite(lv)
    \/ RouterClose

SpecRouter == InitRouter /\ [][NextRouter]_vars

\* ------------------------------- MultiFile (provider/multifile.go:191-284)
\* The router of package provider, over the levels FATAL = 0 .. TRACE = 5 of
\* package logger.  It uses the router's variables: ropts is p.config
\* (RootDir and the directory of each level; FATAL and ERROR both have
\* ErrorDir), rfiles is p.files (slot lv + 1 for level lv).
NumLevel == 6

\* func abs: filepath.Abs
abs(path) == absPath(path)

\* func (p *MultiFile) configForLevel: the Dir of the file sink of a level.
configForLevel(o, lv) == [Dir |-> Join(o.RootDir, o.dirs[lv])]

\* p.group as NewMultiFile builds it: the levels under each absolute
\* directory.
MultiFile_group(o) ==
    [dir \in {abs(Join(o.RootDir, o.dirs[lv])) : lv \in FATAL..TRACE} |->
        {lv \in FATAL..TRACE : abs(Join(o.RootDir, o.dirs[lv])) = dir}]

\* func (p *MultiFile) initForLevel at a level in range: a new file sink for
\* the slot of lv, and for the nil slots of the levels of its directory.
MultiFile_initForLevel(o, files, sk, lv) ==
    LET id == Len(sk) + 1
        dir == configForLevel(o, lv).Dir
        f1 == [files EXCEPT ![lv + 1] = id]
        key == abs(dir)
        f2 == IF key \in DOMAIN MultiFile_group(o)
              THEN [i \in DOMAIN f1 |->
                      IF f1[i] = Nil /\ (i - 1) \in MultiFile_group(o)[key]
                      THEN id ELSE f1[i]]
              ELSE f1
    IN  [files |-> f2,
         sinks |-> Append(sk, [dir |-> dir, writes |-> 0, closes |-> 0])]

\* Inputs: RootDir, ErrorDir and WarnDir (the other levels keep their
\* defaults), and the levels written, two of them outside FATAL..TRACE.
MultiFileDirs ==
    { [abs |-> FALSE, segs |-> <<"error">>, sp |-> 0],
      [abs |-> FALSE, segs |-> <<"error">>, sp |-> 1],
      [abs |-> FALSE, segs |-> <<"warn">>, sp |-> 0] }
MultiFileLevels == {-1, FATAL, ERROR, WARN, NumLevel}

\* The call has ended in a run-time panic.
Panicked == \E i \in 1..Len(rhist) : rhist[i].ret = "panic"

\* func NewMultiFile(opts): no file sink yet.
InitMultiFile ==
    /\ EngineIdle
    /\ f = FileZero(0) /\ disk = <<>> /\ today = 1 /\ fhist = <<>>
    /\ fcall = NoCall /\ links = NoLinks /\ tick = "idle"
    /\ NoMix /\ NoParse /\ NoApi
    /\ \E d \in RootDirs, de, dw \in MultiFileDirs :
          ropts = [RootDir |-> d,
                   dirs |-> [lv \in FATAL..TRACE |->
                               IF lv \in {FATAL, ERROR} THEN de
                               ELSE IF lv = WARN THEN dw
                               ELSE DefaultDir[lv + 1]]]
    /\ rfiles = [i \in 1..NumLevel |-> Nil]
    /\ sinks = <<>> /\ rhist = <<>>

\* func (p *MultiFile) Write: p.files[level] is read first, and the index
\* expression panics for a level outside the array; else initForLevel for a
\* nil slot, then Write on the slot's file sink.
MultiFileWrite(lv) ==
    /\ ~Panicked /\ Len(rhist) < MaxRouterOps
    /\ IF lv < 0 \/ lv >= NumLevel
       THEN /\ rhist' = Append(rhist, [op |-> "Write", lv |-> lv, to |-> Nil,
                                       ret |-> "panic"])
            /\ UNCHANGED <<rfiles, sinks>>
       ELSE LET r == IF rfiles[lv + 1] = Nil
                     THEN MultiFile_initForLevel(ropts, rfiles, sinks, lv)
                     ELSE [files |-> rfiles, sinks |-> sinks]
                id == r.files[lv + 1]
            IN  /\ rfiles' = r.files
                /\ sinks' = [r.sinks EXCEPT ![id].writes = @ + 1]
                /\ rhist' = Append(rhist, [op |-> "Write", lv |-> lv, to |-> id,
                                           ret |-> "nil"])
    /\ UNCHANGED <<engine, fsink, mixv, parse, api, ropts>>

\* func (p *MultiFile) Close: the slots after the first, in order, each closed
\* and then nil; the slot of index 0 is passed over.
MultiFileClose ==
    /\ ~Panicked /\ Len(rhist) < MaxRouterOps
    /\ LET r == CloseFrom(rfiles, sinks, 2)
       IN  rfiles' = r.files /\ sinks' = r.sinks
    /\ rhist' = Append(rhist, [op |-> "Close", lv |-> Nil, to |-> Nil,
                               ret |-> "nil"])
    /\ UNCHANGED <<engine, fsink, mixv, parse, api, ropts>>

NextMultiFile ==
    \/ \E lv \in MultiFileLevels : MultiFileWrite(lv)
    \/ MultiFileClose

SpecMultiFile == InitMultiFile /\ [][NextMultiFile]_vars

\* ----------------- composite sinks (provider/mix.go, unnamed/part_007:29-53)
\* An error value: nil, or an error with its message, a sequence of tokens.
NoError == [nil |-> TRUE, msg |-> <<>>]
Error(msg) == [nil |-> FALSE, msg |-> msg]

\* The error inner sink i returns when its call fails; its message is its own.
InnerMsgs == <<"e1", "e2", "e3">>
InnerErr(i, fails) == IF i \in fails THEN Error(<<InnerMsgs[i]>>) ELSE NoError

MixKinds == {"mixProvider", "multiWriter"}

\* func (e *errorList) tryPush
tryPush(errs, err) == IF ~err.nil THEN Append(errs, err) ELSE errs

\* func (e errorList) err: nil for no error, else a new error whose message is
\* each pushed message followed by ';'.
RECURSIVE JoinErrs(_)
JoinErrs(errs) ==
    IF errs = <<>> THEN <<>>
    ELSE Head(errs).msg \o <<";">> \o JoinErrs(Tail(errs))

err(errs) == IF errs = <<>> THEN NoError ELSE Error(JoinErrs(errs))

\* mixProvider: for _, op := range p.providers { err.tryPush(op.Write(...)) }
\* from provider i on; the calls made are appended to order.
RECURSIVE mixLoop(_, _, _, _, _, _)
mixLoop(i, n, fails, errs, order, c) ==
    IF i > n THEN [err |-> err(errs), order |-> order]
    ELSE mixLoop(i + 1, n, fails, tryPush(errs, InnerErr(i, fails)),
                 Append(order, [call |-> c, sink |-> i]), c)

\* multiWriter: for i := range w.writers { if err := ...; err != nil
\* { lastErr = err } } from writer i on.
RECURSIVE multiLoop(_, _, _, _, _, _)
multiLoop(i, n, fails, lastErr, order, c) ==
    IF i > n THEN [err |-> lastErr, order |-> order]
    ELSE multiLoop(i + 1, n, fails,
                   IF ~InnerErr(i, fails).nil THEN InnerErr(i, fails)
                   ELSE lastErr,
                   Append(order, [call |-> c, sink |-> i]), c)

\* The loop of a composite of the given kind, Write and Close alike.
compositeLoop(kind, n, fails, order, c) ==
    IF kind = "mixProvider" THEN mixLoop(1, n, fails, <<>>, order, c)
    ELSE multiLoop(1, n, fails, NoError, order, c)

\* NewMixProvider(first, others...) and multiWriter{writers}: one to MaxSinks
\* inner sinks.
InitMix ==
    /\ EngineIdle
    /\ f = FileZero(0) /\ disk = <<>> /\ today = 1 /\ fhist = <<>>
    /\ fcall = NoCall /\ links = NoLinks /\ tick = "idle"
    /\ ropts = <<>> /\ rfiles = <<>> /\ sinks = <<>> /\ rhist = <<>>
    /\ NoParse /\ NoApi
    /\ mkind \in MixKinds /\ mn \in 1..MaxSinks
    /\ morder = <<>> /\ mrets = <<>>

\* func (p *mixProvider) Write, func (w multiWriter) Write: the inner Writes
\* of the sinks in fails return their error, the others nil.
MixWrite(fails) ==
    /\ mkind \in MixKinds /\ Len(mrets) < MaxMixOps
    /\ LET c == Len(mrets) + 1
           r == compositeLoop(mkind, mn, fails, morder, c)
       IN  /\ morder' = r.order
           /\ mrets' = Append(mrets, [op |-> "Write", fails |-> fails,
                                      err |-> r.err])
    /\ UNCHANGED <<engine, fsink, router, parse, api, mkind, mn>>

\* func (p *mixProvider) Close, func (w multiWriter) Close
MixClose(fails) ==
    /\ mkind \in MixKinds /\ Len(mrets) < MaxMixOps
    /\ LET c == Len(mrets) + 1
           r == compositeLoop(mkind, mn, fails, morder, c)
       IN  /\ morder' = r.order
           /\ mrets' = Append(mrets, [op |-> "Close", fails |-> fails,
                                      err |-> r.err])
    /\ UNCHANGED <<engine, fsink, router, parse, api, mkind, mn>>

NextMix ==
    \/ \E fails \in SUBSET (1..mn) : MixWrite(fails)
    \/ \E fails \in SUBSET (1..mn) : MixClose(fails)

SpecMix == InitMix /\ [][NextMix]_vars

\* ------------------------------------- ParseLevel (logger/log_level.go)
\* A string is the sequence of its characters.  The letters of the level
\* names and a few others, lower case and upper case; U+0131 is the dotless
\* small i, the one character outside ASCII that unicode.ToUpper takes to a
\* letter of a level name.
Lowers == <<"a", "b", "c", "d", "e", "f", "g", "i", "l", "n", "o", "r", "s",
            "t", "u", "w", "x">>
Uppers == <<"A", "B", "C", "D", "E", "F", "G", "I", "L", "N", "O", "R", "S",
            "T", "U", "W", "X">>
DotlessI == "U+0131"
Digits == <<"0", "1", "2", "3", "4", "5", "6">>

\* unicode.ToUpper on one character
unicodeToUpper(c) ==
    IF \E i \in 1..Len(Lowers) : Lowers[i] = c
    THEN Uppers[CHOOSE i \in 1..Len(Lowers) : Lowers[i] = c]
    ELSE IF c = DotlessI THEN "I" ELSE c

\* strings.ToUpper
ToUpper(s) == [i \in 1..Len(s) |-> unicodeToUpper(s[i])]

\* func (level Level) Literal: strconv.Itoa(int(level))
Literal(lv) == <<Digits[lv + 1]>>

LevelNames == << <<"F", "A", "T", "A", "L">>, <<"E", "R", "R", "O", "R">>,
                 <<"W", "A", "R", "N">>, <<"I", "N", "F", "O">>,
                 <<"D", "E", "B", "U", "G">>, <<"T", "R", "A", "C", "E">> >>

\* The strings of one case of the switch: "FATAL", "F", FATAL.Literal().
caseOf(lv) == {LevelNames[lv + 1], <<LevelNames[lv + 1][1]>>, Literal(lv)}

\* The switch on the string as given, without strings.ToUpper.
ParseLevelExact(s) ==
    IF s \in caseOf(FATAL) THEN [lv |-> FATAL, ok |-> TRUE]
    ELSE IF s \in caseOf(ERROR) THEN [lv |-> ERROR, ok |-> TRUE]
    ELSE IF s \in caseOf(WARN) THEN [lv |-> WARN, ok |-> TRUE]
    ELSE IF s \in caseOf(INFO) THEN [lv |-> INFO, ok |-> TRUE]
    ELSE IF s \in caseOf(DEBUG) THEN [lv |-> DEBUG, ok |-> TRUE]
    ELSE IF s \in caseOf(TRACE) THEN [lv |-> TRACE, ok |-> TRUE]
    ELSE [lv |-> INFO, ok |-> FALSE]

\* func ParseLevel(s string) (lv Level, ok bool)
ParseLevel(s) ==
    LET u == ToUpper(s)
    IN  IF u \in caseOf(FATAL) THEN [lv |-> FATAL, ok |-> TRUE]
        ELSE IF u \in caseOf(ERROR) THEN [lv |-> ERROR, ok |-> TRUE]
        ELSE IF u \in caseOf(WARN) THEN [lv |-> WARN, ok |-> TRUE]
        ELSE IF u \in caseOf(INFO) THEN [lv |-> INFO, ok |-> TRUE]
        ELSE IF u \in caseOf(DEBUG) THEN [lv |-> DEBUG, ok |-> TRUE]
        ELSE IF u \in caseOf(TRACE) THEN [lv |-> TRACE, ok |-> TRUE]
        ELSE [lv |-> INFO, ok |-> FALSE]

\* func MustParseLevel(s string) Level: the level, or a panic (no level).
MustParseLevel(s) ==
    LET r == ParseLevel(s)
    IN  IF ~r.ok THEN [lv |-> -1, panic |-> TRUE]
        ELSE [lv |-> r.lv, panic |-> FALSE]

\* The strings given: each name in four spellings, each abbreviation in both
\* cases, the digits, and strings that name no level.
LowerOf(c) ==
    IF \E i \in 1..Len(Uppers) : Uppers[i] = c
    THEN Lowers[CHOOSE i \in 1..Len(Uppers) : Uppers[i] = c]
    ELSE c

Spellings(n) ==
    { n,
      [i \in 1..Len(n) |-> LowerOf(n[i])],
      [i \in 1..Len(n) |-> IF i = 1 THEN n[i] ELSE LowerOf(n[i])],
      [i \in 1..Len(n) |-> IF i % 2 = 1 THEN LowerOf(n[i]) ELSE n[i]] }

ParseInputs ==
    UNION {Spellings(LevelNames[k]) : k \in 1..6}
    \cup {<<LevelNames[k][1]>> : k \in 1..6}
    \cup {<<LowerOf(LevelNames[k][1])>> : k \in 1..6}
    \cup {<<Digits[k]>> : k \in 1..7}
    \cup {SubSeq(LevelNames[k], 1, Len(LevelNames[k]) - 1) : k \in 1..6}
    \cup {LevelNames[k] \o <<"S">> : k \in 1..6}
    \cup {<<" ">> \o LevelNames[k] : k \in 1..6}
    \cup { <<>>, <<"X">>, <<"x">>, <<"-", "1">>, <<"0", "0">>, <<"1", "0">>,
           <<"W", "A", "R", "N", "I", "N", "G">>, <<" ">>,
           <<DotlessI>>, <<DotlessI, "n", "f", "o">> }

NoOutcome == [op |-> "none"]

InitParse ==
    /\ EngineIdle
    /\ f = FileZero(0) /\ disk = <<>> /\ today = 1 /\ fhist = <<>>
    /\ fcall = NoCall /\ links = NoLinks /\ tick = "idle"
    /\ ropts = <<>> /\ rfiles = <<>> /\ sinks = <<>> /\ rhist = <<>>
    /\ NoMix /\ NoApi
    /\ pin \in ParseInputs /\ pres = NoOutcome

\* ParseLevel(pin) is called and returns.
ParseLevelCall ==
    /\ pres = NoOutcome
    /\ LET r == ParseLevel(pin)
       IN  pres' = [op |-> "ParseLevel", lv |-> r.lv, ok |-> r.ok,
                    panic |-> FALSE]
    /\ UNCHANGED <<engine, fsink, router, mixv, api, pin>>

\* MustParseLevel(pin) is called and returns or panics.
MustParseLevelCall ==
    /\ pres = NoOutcome
    /\ LET r == MustParseLevel(pin)
       IN  pres' = [op |-> "MustParseLevel", lv |-> r.lv, ok |-> ~r.panic,
                    panic |-> r.panic]
    /\ UNCHANGED <<engine, fsink, router, mixv, api, pin>>

NextParse == ParseLevelCall \/ MustParseLevelCall

SpecParse == InitParse /\ [][NextParse]_vars

\* ----------------- the package-level API (unnamed/part_004, log.go)
\* Two generations of the package: Start(options...) over the global printer
\* gprinter (levels 1..6), and Init(providerTypes, opts) over the global
\* logger glogger (package logger, levels 0..5).  The global object is
\* [api, kind, level, async, running, gen, leveled, exited]: gen counts the
\* objects installed, leveled says that a level was ever specified.
Apis == {"printer", "logger"}

\* var gprinter = newStdPrinter(); var glogger = logger.NewStdLogger():
\* both start at INFO.
StdOf(a) ==
    [api |-> a, kind |-> "std", level |-> IF a = "printer" THEN LvINFO ELSE INFO,
     async |-> FALSE, running |-> FALSE, gen |-> 0, leveled |-> FALSE,
     exited |-> FALSE]

InitGlobal ==
    /\ EngineIdle
    /\ f = FileZero(0) /\ disk = <<>> /\ today = 1 /\ fhist = <<>>
    /\ fcall = NoCall /\ links = NoLinks /\ tick = "idle"
    /\ ropts = <<>> /\ rfiles = <<>> /\ sinks = <<>> /\ rhist = <<>>
    /\ NoMix /\ NoParse /\ NoIf /\ NoTimed
    /\ \E a \in Apis : gl = StdOf(a)
    /\ ghist = <<>>

\* The options of a Start call: how many writers, WithLevel's level (0 for no
\* WithLevel), WithSync.
StartWriters == 0..2
StartOptLevels == {0, LvERROR, LvTRACE}

\* func Start(options ...Option) error: with no writer the global printer is
\* kept, else newPrinter (whose level is the zero value) replaces it; the level
\* is set only when opt.level != 0.
Start4(g, nw, lv, sync) ==
    LET made == IF nw = 0 THEN g
                ELSE [g EXCEPT !.kind = "printer", !.level = 0,
                               !.async = ~sync, !.running = ~sync,
                               !.gen = @ + 1]
    IN  IF lv # 0 THEN [made EXCEPT !.level = lv, !.leveled = TRUE] ELSE made

GStart(nw, lv, sync) ==
    /\ gl.api = "printer" /\ ~gl.exited /\ Len(ghist) < MaxGlobalOps
    /\ gl' = Start4(gl, nw, lv, sync)
    /\ ghist' = Append(ghist, [op |-> "Start", nw |-> nw, lv |-> lv])
    /\ UNCHANGED <<engine, fsink, router, mixv, parse, ifl, td>>

\* func SetLevel(level Level)
GSetLevel(lv) ==
    /\ gl.api \in Apis /\ ~gl.exited /\ Len(ghist) < MaxGlobalOps
    /\ gl' = [gl EXCEPT !.level = lv, !.leveled = TRUE]
    /\ ghist' = Append(ghist, [op |-> "SetLevel", lv |-> lv])
    /\ UNCHANGED <<engine, fsink, router, mixv, parse, ifl, td>>

\* Whether a call at level lv gets to output: gprinter.Printf tests
\* GetLevel() >= level; glogger's Fatal has no test.
Admits(g, lv) == IF g.api = "printer" THEN g.level >= lv ELSE Gate(lv, g.level)

\* Whether the process exits in the call: printer.Printf exits after every
\* FATAL call, the std printer and the loggers inside output.
Exits(g, lv) ==
    IF g.api = "printer"
    THEN lv = LvFATAL /\ (g.kind = "printer" \/ g.level >= lv)
    ELSE lv = FATAL

\* func Fatal, Error, Info, Debug: a call at level lv on the global object.
GLog(lv) ==
    /\ gl.api \in Apis /\ ~gl.exited /\ Len(ghist) < MaxGlobalOps
    /\ gl' = [gl EXCEPT !.exited = Exits(gl, lv)]
    /\ ghist' = Append(ghist, [op |-> "log", lv |-> lv,
                               written |-> Admits(gl, lv),
                               leveled |-> gl.leveled])
    /\ UNCHANGED <<engine, fsink, router, mixv, parse, ifl, td>>

\* The levels of the API in use.
GLevels(a) == IF a = "printer" THEN LvFATAL..LvTRACE ELSE FATAL..TRACE

\* A provider-types string is the sequence of its pieces: a type name, "/"
\* or a blank.
TypeTokens == {"console", "file", "nope", "/", " "}
Registered == {<<"console">>, <<"file">>}

\* strings.Split(s, "/"): the segments between the separators, one segment
\* (the empty one) for the empty string.
RECURSIVE Split(_)
Split(s) ==
    IF \A i \in 1..Len(s) : s[i] # "/" THEN <<s>>
    ELSE LET k == CHOOSE i \in 1..Len(s) :
                      s[i] = "/" /\ \A j \in 1..(i - 1) : s[j] # "/"
         IN  <<SubSeq(s, 1, k - 1)>> \o Split(SubSeq(s, k + 1, Len(s)))

\* strings.TrimSpace
RECURSIVE TrimSpace(_)
TrimSpace(s) ==
    IF s = <<>> THEN s
    ELSE IF Head(s) = " " THEN TrimSpace(Tail(s))
    ELSE IF s[Len(s)] = " " THEN TrimSpace(SubSeq(s, 1, Len(s) - 1))
    ELSE s

\* usedTypes: the trimmed segments, as a set.
usedTypes(types) == {TrimSpace(types[i]) : i \in 1..Len(types)}

\* The orders in which range can walk the map usedTypes.
Orders(S) ==
    {o \in [1..Cardinality(S) -> S] : \A x \in S : \E i \in DOMAIN o : o[i] = x}

\* The loop passing over the types that are not registered.
RECURSIVE createProvidersSkip(_, _)
createProvidersSkip(ord, i) ==
    IF i > Len(ord) THEN "nil" ELSE createProvidersSkip(ord, i + 1)

\* for typ := range usedTypes: the first unregistered type met returns its
\* error; with a single type InitWithProvider is called on the spot.
RECURSIVE createProviders(_, _)
createProviders(ord, i) ==
    IF i > Len(ord) THEN "nil"
    ELSE IF ord[i] \notin Registered THEN "unregistered provider type"
    ELSE createProviders(ord, i + 1)

\* func InitWithProvider: logger.New(p), SetLevel(LvINFO), then
\* InitWithLogger: glogger.Quit(), glogger = l, glogger.Run().
InitWithProvider(g) ==
    [g EXCEPT !.kind = "logger", !.level = INFO, !.async = TRUE,
              !.running = TRUE, !.gen = @ + 1]

\* func Init(providerTypes string, opts interface{}) error
Init(g, s, ord) ==
    LET types == Split(s)
        e == IF Len(types) = 0 \/ Len(s) = 0 THEN "empty providers"
             ELSE createProviders(ord, 1)
    IN  [err |-> e,
         logged |-> e # "nil" /\ Admits(g, ERROR),
         g |-> IF e = "nil" THEN InitWithProvider(g) ELSE g]

InitInputs ==
    {<<>>}
    \cup {<<a>> : a \in TypeTokens}
    \cup {<<a, b>> : a, b \in TypeTokens}
    \cup {<<a, "/", b>> : a, b \in {"console", "file", "nope"}}

GInit(s) ==
    /\ gl.api = "logger" /\ ~gl.exited /\ Len(ghist) < MaxGlobalOps
    /\ \E ord \in Orders(usedTypes(Split(s))) :
          LET r == Init(gl, s, ord)
          IN  /\ gl' = r.g
              /\ ghist' = Append(ghist, [op |-> "Init", s |-> s, err |-> r.err,
                                         was |-> gl, now |-> r.g])
    /\ UNCHANGED <<engine, fsink, router, mixv, parse, ifl, td>>

\* func Uninit(err error): glogger.Quit()
GUninit ==
    /\ gl.api = "logger" /\ ~gl.exited /\ Len(ghist) < MaxGlobalOps
    /\ gl' = [gl EXCEPT !.running = FALSE]
    /\ ghist' = Append(ghist, [op |-> "Uninit"])
    /\ UNCHANGED <<engine, fsink, router, mixv, parse, ifl, td>>

\* The strings given to SetLevelFromString.
LevelStrings ==
    { <<"t", "r", "a", "c", "e">>, <<"D", "e", "b", "u", "g">>, <<"W">>,
      <<"e">>, <<"0">>, <<"3">>, <<"6">>, <<>>,
      <<"i", "n", "v", "a", "l", "i", "d">> }

\* SetLevelFromString leaving the level alone when the parse fails.
SetLevelFromStringIfOk(g, s) ==
    LET r == ParseLevel(s)
    IN  [g |-> IF r.ok THEN [g EXCEPT !.level = r.lv, !.leveled = TRUE] ELSE g,
         ret |-> r.lv]

\* func SetLevelFromString(s string) logger.Level: level, _ := ParseLevel(s);
\* glogger.SetLevel(level); return level.
SetLevelFromString(g, s) ==
    LET r == ParseLevel(s)
    IN  [g |-> [g EXCEPT !.level = r.lv, !.leveled = TRUE], ret |-> r.lv]

GSetLevelFromString(s) ==
    /\ gl.api = "logger" /\ ~gl.exited /\ Len(ghist) < MaxGlobalOps
    /\ LET r == SetLevelFromString(gl, s)
       IN  /\ gl' = r.g
           /\ ghist' = Append(ghist, [op |-> "SetLevelFromString", s |-> s,
                                      ret |-> r.ret])
    /\ UNCHANGED <<engine, fsink, router, mixv, parse, ifl, td>>

\* func GetLevel() logger.Level
GGetLevel ==
    /\ gl.api \in Apis /\ ~gl.exited /\ Len(ghist) < MaxGlobalOps
    /\ ghist' = Append(ghist, [op |-> "GetLevel", ret |-> gl.level])
    /\ UNCHANGED <<engine, fsink, router, mixv, parse, ifl, td, gl>>

NextGlobal ==
    \/ \E nw \in StartWriters, lv \in StartOptLevels, sync \in BOOLEAN :
          GStart(nw, lv, sync)
    \/ \E lv \in GLevels(gl.api) : GSetLevel(lv)
    \/ \E lv \in GLevels(gl.api) : GLog(lv)
    \/ \E s \in InitInputs : GInit(s)
    \/ GUninit
    \/ \E s \in LevelStrings : GSetLevelFromString(s)
    \/ GGetLevel

SpecGlobal == InitGlobal /\ [][NextGlobal]_vars

\* ------------------------------------------------ IfLogger (if_logger.go)
\* type IfLogger byte: the high four bits say that a branch has been taken,
\* the low four that this branch logs.
AndF0(b) == b - (b % 16)
And0F(b) == b % 16

\* func (il IfLogger) ok() bool
ok(b) == And0F(b) # 0

\* func If(ok bool) IfLogger
If(c) == IF c THEN 255 ELSE 0

\* func (il IfLogger) Else() IfLogger
Else(b) == IF AndF0(b) # 0 THEN AndF0(b) ELSE 255

\* ElseIf forgetting the branches before it.
ElseIfFresh(b, c) == If(c)

\* func (il IfLogger) ElseIf(ok bool) IfLogger
ElseIf(b, c) == IF AndF0(b) # 0 THEN AndF0(b) ELSE IF c THEN 255 ELSE 0

InitIf ==
    /\ EngineIdle
    /\ f = FileZero(0) /\ disk = <<>> /\ today = 1 /\ fhist = <<>>
    /\ fcall = NoCall /\ links = NoLinks /\ tick = "idle"
    /\ ropts = <<>> /\ rfiles = <<>> /\ sinks = <<>> /\ rhist = <<>>
    /\ NoMix /\ NoParse /\ NoGlobal /\ NoTimed
    /\ il = 0 /\ ichain = <<>>

\* log.If(c) begins a chain.
IfStep(c) ==
    /\ ichain = <<>>
    /\ il' = If(c)
    /\ ichain' = <<[step |-> "If", c |-> c, emitted |-> FALSE]>>
    /\ UNCHANGED <<engine, fsink, router, mixv, parse, glob, td>>

\* .ElseIf(c)
ElseIfStep(c) ==
    /\ ichain # <<>> /\ Len(ichain) < MaxChain
    /\ il' = ElseIf(il, c)
    /\ ichain' = Append(ichain, [step |-> "ElseIf", c |-> c, emitted |-> FALSE])
    /\ UNCHANGED <<engine, fsink, router, mixv, parse, glob, td>>

\* .Else()
ElseStep ==
    /\ ichain # <<>> /\ Len(ichain) < MaxChain
    /\ il' = Else(il)
    /\ ichain' = Append(ichain, [step |-> "Else", c |-> TRUE, emitted |-> FALSE])
    /\ UNCHANGED <<engine, fsink, router, mixv, parse, glob, td>>

\* func (il IfLogger) Info (Trace, Debug, ... alike): the call goes to the
\* global logger iff il.ok(); the chain goes on with il.
InfoStep ==
    /\ ichain # <<>> /\ Len(ichain) < MaxChain
    /\ ichain' = Append(ichain, [step |-> "log", c |-> FALSE, emitted |-> ok(il)])
    /\ UNCHANGED <<engine, fsink, router, mixv, parse, glob, td, il>>

NextIf ==
    \/ \E c \in BOOLEAN : IfStep(c)
    \/ \E c \in BOOLEAN : ElseIfStep(c)
    \/ ElseStep
    \/ InfoStep

SpecIf == InitIf /\ [][NextIf]_vars

\* ------------------- the printer with timed enqueue (unnamed/part_029)
\* td holds the printer (async, level, running, queue q, wait closed), the
\* worker goroutine (wk, its entry we), each caller's position, entry and the
\* time it has waited in select, and what the calls came to.  Time is counted
\* in ticks: the short timeout (100 ms in the code) is one tick, the long one
\* (3 s in the code) is three, so the order of the two is kept and the ratio
\* is not.
maxWaitTimeForVerboseLevel == 1
maxWaitTimeForImportantLevel == 3

\* maxWaitTime in output: e.level.MoreVerboseThan(LvINFO) picks the short one.
maxWaitTime(lv) ==
    IF lv > LvINFO THEN maxWaitTimeForVerboseLevel
    ELSE maxWaitTimeForImportantLevel

NoEntry == [quit |-> FALSE, rec |-> 0, lvl |-> 0]
TimedLevels == {LvFATAL, LvINFO, LvDEBUG}

\* func newPrinter(writer, async), then SetLevel as Start(options) does it.
InitTimed ==
    /\ EngineIdle
    /\ f = FileZero(0) /\ disk = <<>> /\ today = 1 /\ fhist = <<>>
    /\ fcall = NoCall /\ links = NoLinks /\ tick = "idle"
    /\ ropts = <<>> /\ rfiles = <<>> /\ sinks = <<>> /\ rhist = <<>>
    /\ NoMix /\ NoParse /\ NoGlobal /\ NoIf
    /\ \E a \in BOOLEAN, lv \in {LvINFO, LvTRACE} :
          td = [async |-> a, level |-> lv, running |-> 0, q |-> <<>>,
                closed |-> FALSE, wk |-> "none", we |-> NoEntry,
                pc |-> [t \in Callers |-> "idle"],
                hold |-> [t \in Callers |-> NoEntry],
                waited |-> [t \in Callers |-> 0],
                out |-> <<>>, written |-> <<>>, closes |-> 0,
                exited |-> FALSE, starts |-> 0, shutdowns |-> 0, logs |-> 0]

TdRest == <<engine, fsink, router, mixv, parse, glob, ifl>>

\* func (p *printer) Start: the goroutine is made by the first call only.
TdStart(t) ==
    /\ ~td.exited /\ td.pc[t] = "idle" /\ td.starts < MaxTimedStart
    /\ td' = IF ~td.async THEN [td EXCEPT !.starts = @ + 1]
             ELSE [td EXCEPT !.starts = @ + 1, !.running = @ + 1,
                             !.wk = IF td.running = 0 THEN "recv" ELSE @]
    /\ UNCHANGED TdRest

\* for e := range p.queue: a quit entry ends the loop and running is stored 0.
TdRecv ==
    /\ ~td.exited /\ td.wk = "recv" /\ td.q # <<>>
    /\ td' = IF Head(td.q).quit
             THEN [td EXCEPT !.q = Tail(@), !.running = 0, !.wk = "closing"]
             ELSE [td EXCEPT !.q = Tail(@), !.we = Head(td.q), !.wk = "write"]
    /\ UNCHANGED TdRest

\* p.writeBuffer(e) by the goroutine: Write, and for FATAL Close and os.Exit(1).
TdWrite ==
    /\ ~td.exited /\ td.wk = "write"
    /\ td' = [td EXCEPT !.written = Append(@, td.we.rec), !.we = NoEntry,
                        !.wk = "recv",
                        !.closes = IF td.we.lvl = LvFATAL THEN @ + 1 ELSE @,
                        !.exited = td.we.lvl = LvFATAL]
    /\ UNCHANGED TdRest

\* close(p.wait)
TdCloseWait ==
    /\ ~td.exited /\ td.wk = "closing"
    /\ td' = [td EXCEPT !.closed = TRUE, !.wk = "done"]
    /\ UNCHANGED TdRest

\* func (p *printer) Shutdown, up to the send of the quit entry.
TdShutdown(t) ==
    /\ ~td.exited /\ td.pc[t] = "idle" /\ td.shutdowns < MaxTimedShutdown
    /\ td' = [td EXCEPT !.shutdowns = @ + 1,
                        !.pc[t] = IF ~td.async \/ td.running = 0 THEN "idle"
                                  ELSE "sd_send"]
    /\ UNCHANGED TdRest

\* p.queue <- &entry{quit: true}
TdShutdownSend(t) ==
    /\ ~td.exited /\ td.pc[t] = "sd_send" /\ Len(td.q) < TimedCap
    /\ td' = [td EXCEPT !.q = Append(@, [quit |-> TRUE, rec |-> 0, lvl |-> 0]),
                        !.pc[t] = "sd_wait"]
    /\ UNCHANGED TdRest

\* <-p.wait; p.writer.Close()
TdShutdownWait(t) ==
    /\ ~td.exited /\ td.pc[t] = "sd_wait" /\ td.closed
    /\ td' = [td EXCEPT !.closes = @ + 1, !.pc[t] = "idle"]
    /\ UNCHANGED TdRest

\* Where a call at level lv goes after output: Printf blocks in select {}
\* after a FATAL call.
TdAfter(lv) == IF lv = LvFATAL THEN "blocked" ELSE "idle"

\* func (p *printer) Printf, and output up to the choice between the queue
\* and the write in place.
TdPrintf(t, lv) ==
    /\ ~td.exited /\ td.pc[t] = "idle" /\ td.logs < MaxTimedLogs
    /\ LET rec == td.logs + 1
           e == [quit |-> FALSE, rec |-> rec, lvl |-> lv]
       IN  td' = IF td.level >= lv
                 THEN [td EXCEPT !.logs = rec, !.hold[t] = e, !.waited[t] = 0,
                                 !.pc[t] = IF td.async /\ td.running # 0
                                           THEN "select" ELSE "sync"]
                 ELSE [td EXCEPT !.logs = rec, !.pc[t] = TdAfter(lv)]
    /\ UNCHANGED TdRest

\* The call of thread t ends: what it came to and how long it waited.
TdDone(t, how) ==
    [td EXCEPT !.out = Append(@, [rec |-> td.hold[t].rec, lvl |-> td.hold[t].lvl,
                                  how |-> how, waited |-> td.waited[t]]),
               !.hold[t] = NoEntry, !.waited[t] = 0,
               !.pc[t] = TdAfter(td.hold[t].lvl)]

\* select: case p.queue <- e
TdSelectSend(t) ==
    /\ ~td.exited /\ td.pc[t] = "select" /\ Len(td.q) < TimedCap
    /\ td' = [TdDone(t, "queued") EXCEPT !.q = Append(@, td.hold[t])]
    /\ UNCHANGED TdRest

\* select: case <-time.After(maxWaitTime): the entry is let go.
TdTimeout(t) ==
    /\ ~td.exited /\ td.pc[t] = "select"
    /\ td.waited[t] = maxWaitTime(td.hold[t].lvl)
    /\ td' = TdDone(t, "dropped")
    /\ UNCHANGED TdRest

\* One tick passes: no timer of a waiting producer is overdue.
TdTick ==
    /\ ~td.exited
    /\ \E t \in Callers : td.pc[t] = "select"
    /\ \A t \in Callers :
          td.pc[t] = "select" => td.waited[t] < maxWaitTime(td.hold[t].lvl)
    /\ td' = [td EXCEPT !.waited = [t \in Callers |->
                 IF td.pc[t] = "select" THEN td.waited[t] + 1 ELSE td.waited[t]]]
    /\ UNCHANGED TdRest

\* p.writeLocker.Lock(); p.writeBuffer(e); p.writeLocker.Unlock()
TdSync(t) ==
    /\ ~td.exited /\ td.pc[t] = "sync"
    /\ td' = [TdDone(t, "sync") EXCEPT
                 !.written = Append(@, td.hold[t].rec),
                 !.closes = IF td.hold[t].lvl = LvFATAL THEN @ + 1 ELSE @,
                 !.exited = td.hold[t].lvl = LvFATAL]
    /\ UNCHANGED TdRest

TdWorker == TdRecv \/ TdWrite \/ TdCloseWait

TdCallStep(t) ==
    \/ TdShutdownSend(t) \/ TdShutdownWait(t)
    \/ TdSelectSend(t) \/ TdTimeout(t) \/ TdSync(t)

NextTimed ==
    \/ TdWorker
    \/ TdTick
    \/ \E t \in Callers : TdCallStep(t) \/ TdStart(t) \/ TdShutdown(t)
    \/ \E t \in Callers, lv \in TimedLevels : TdPrintf(t, lv)

SpecTimed == InitTimed /\ [][NextTimed]_vars

\* The goroutines take their steps and time passes.
FairTimed ==
    /\ SpecTimed
    /\ WF_vars(TdWorker) /\ WF_vars(TdTick)
    /\ \A t \in Callers : WF_vars(TdCallStep(t))

\* In the printer with timed enqueue a call that has ended waited no longer
\* than the timeout of its level, a dropped entry waited exactly that long and
\* is never written, and a caller in select leaves it.
TimedWaitBounded ==
    \A i \in 1..Len(td.out) :
        LET o == td.out[i]
            bound == IF o.lvl \in {LvDEBUG, LvTRACE}
                     THEN maxWaitTimeForVerboseLevel
                     ELSE maxWaitTimeForImportantLevel
        IN  /\ o.waited <= bound
            /\ o.how = "dropped" =>
                  /\ o.waited = bound
                  /\ \A k \in 1..Len(td.written) : td.written[k] # o.rec

TimedSelectReturns ==
    \A t \in Callers : (td.pc[t] = "select") ~> (td.pc[t] # "select" \/ td.exited)

\* ------------------------------------------------------------- the claims
WrittenRecs == {written[i].rec : i \in 1..Len(written)}
LiveWorkers == {w \in Workers : pc[w] \notin {"none", "done"}}

\* C2: entries logged by one thread reach Write in the order of its calls
\* (records are numbered in call order).
C2_OrderPerProducer ==
    \A i, j \in 1..Len(written) :
        (i < j /\ written[i].rec # Nil /\ written[j].rec # Nil
           /\ owner[written[i].rec] = owner[written[j].rec])
        => written[i].rec < written[j].rec

\* C3: when Flush returns, every entry enqueued before the call began has been
\* passed to Write.
C3_FlushComplete ==
    \A t \in Callers : pc[t] = "done_flush" => fsnap[t] \subseteq WrittenRecs

\* C4: when a Shutdown that stopped the engine returns, the queue is empty,
\* every entry logged before the call has been passed to Write and Close has
\* been called exactly once; Close is never called a second time.
C4_ShutdownDrains ==
    /\ closeCalls <= 1
    /\ \A t \in Callers :
          pc[t] = "done_shutdown" =>
              /\ size(queue) = 0
              /\ ssnap[t] \subseteq WrittenRecs
              /\ closeCalls = 1

\* C6: the process exits on a FATAL call only after the FATAL entry has been
\* passed to Write.
C6_FatalWrittenBeforeExit ==
    (proc = "exit1" /\ frec[exitBy] # Nil) => frec[exitBy] \in WrittenRecs

\* C9: in asynchronous mode no two threads are inside the sink at once.
C9_OneThreadInSink == async => Cardinality(inSink) <= 1

\* C10: at no time do two workers exist.
C10_OneWorker == Cardinality(LiveWorkers) <= 1

\* C5: an entry appended to the queue is eventually passed to Write, unless the
\* process ends first.
C5_QueuedIsWritten ==
    \A r \in 1..MaxLogs :
        (\E i \in 1..Len(enq) : enq[i] = r) ~> (r \in WrittenRecs \/ ~Alive)

\* C8: a Flush or Shutdown call on a running engine eventually returns (the
\* obligation lapses for Flush when the engine is stopped meanwhile, and for
\* both when the process ends).
C8_FlushShutdownReturn ==
    \A t \in Callers :
        /\ (pc[t] \in {"fl_signal", "fl_wait"} /\ running = 1)
              ~> (pc[t] = "done_flush" \/ running = 0 \/ ~Alive)
        /\ (pc[t] \in {"sd_closequit", "sd_signal", "sd_wait", "in_close"})
              ~> (pc[t] \in {"done_shutdown", "exit"} \/ ~Alive)

\* How often record r has been handed on: calls of Write with it, and places
\* it holds in the logger's channel.
Handed(r) ==
    Cardinality({i \in 1..Len(written) : written[i].rec = r})
      + Cardinality({i \in 1..Len(writeQueue) :
                        ~writeQueue[i].quit /\ ent[writeQueue[i].e].rec = r})

\* C1 as stated: a finished log call at level L under threshold T has
\* produced one write (in asynchronous mode: one queued record) if L <= T and
\* none otherwise.
C1_WrittenIffAdmitted ==
    \A r \in outdone :
        Handed(r) = IF calls[r].lv <= calls[r].thr THEN 1 ELSE 0

\* C1 amended: a finished log call at level L under threshold T has produced
\* one write (in asynchronous mode: one queued record) if L <= T and the
\* rendered record is not empty, and none otherwise.
C1_WrittenIffAdmittedNonEmpty ==
    \A r \in outdone :
        Handed(r) = IF calls[r].lv <= calls[r].thr /\ calls[r].len > 0
                    THEN 1 ELSE 0

\* C1 witness: under threshold WARN a WARN call has been written and an INFO
\* call has returned without a write.
C1_Witness ==
    \E r1, r2 \in outdone :
        /\ calls[r1].thr = WARN /\ calls[r1].lv = WARN /\ r1 \in WrittenRecs
        /\ calls[r2].thr = WARN /\ calls[r2].lv = INFO /\ Handed(r2) = 0

\* C7: a thread that has made a FATAL call sees the process end with exit
\* status 1.
C7_FatalExits ==
    \A t \in Callers : (t \in fatal) ~> (proc = "exit1")

C12_SyncShutdownCloses ==
    \A t \in Callers : (~async /\ pc[t] = "done_noop") => closeCalls >= 1

\* The bytes handed to the Write calls of h.
RECURSIVE SumLen(_)
SumLen(h) == IF h = <<>> THEN 0 ELSE Head(h).n + SumLen(Tail(h))

\* The rotations made inside the Write calls of h.
RECURSIVE Rotations(_)
Rotations(h) ==
    IF h = <<>> THEN 0
    ELSE (IF Head(h).before THEN 1 ELSE 0) + (IF Head(h).after THEN 1 ELSE 0)
            + Rotations(Tail(h))

\* Since construction opened the first file, several Write calls and nothing
\* else have been made, all on that day, every create has succeeded, and the
\* calls have handed over maxSize + 1 bytes in all.
WroteMaxSizePlusOne ==
    /\ fcall = NoCall /\ Len(fhist) >= 2 /\ f.file # Nil
    /\ \A i \in 1..Len(fhist) :
          /\ fhist[i].at = "done" /\ ~fhist[i].nofile
          /\ fhist[i].day = 1 /\ fhist[i].ret = "nil"
    /\ SumLen(fhist) = f.maxSize + 1

\* C13 as stated: writing maxSize + 1 bytes in several calls to a freshly
\* opened file within one day makes exactly one rotation and opens exactly
\* one more file.
C13_OneRotation ==
    WroteMaxSizePlusOne => (Rotations(fhist) = 1 /\ Len(disk) = 2)

\* C13 amended: the same when maxSize is greater than twice the banner plus
\* one (the banner written into every new file counts towards currentSize).
C13_OneRotationLargeMax ==
    (WroteMaxSizePlusOne /\ f.maxSize > 2 * BannerLen + 1)
        => (Rotations(fhist) = 1 /\ Len(disk) = 2)

\* C13 witness: maxSize + 1 bytes written in several calls with a maxSize of
\* more than twice the banner plus one, and one rotation made.
C13_Witness ==
    /\ WroteMaxSizePlusOne /\ f.maxSize > 2 * BannerLen + 1
    /\ Rotations(fhist) = 1 /\ Len(disk) = 2

\* C14: a Write made on a day other than createdTime's rotates before it
\* appends, and the bytes it appends go to a file created on the day of the
\* Write.
C14_DayRotation ==
    \A i \in 1..Len(fhist) :
        (fhist[i].at = "done" /\ fhist[i].day # fhist[i].created
            /\ fhist[i].ret # "errWriterIsNil")
        => /\ fhist[i].before
           /\ fhist[i].nn > 0 => disk[fhist[i].to].day = fhist[i].day

\* C14 witness: a Write on a new day has rotated and appended to the new
\* day's file with currentSize below maxSize.
C14_Witness ==
    \E i \in 1..Len(fhist) :
        /\ fhist[i].at = "done" /\ fhist[i].day # fhist[i].created
        /\ fhist[i].before /\ ~fhist[i].after /\ fhist[i].nn = fhist[i].n
        /\ fhist[i].size < f.maxSize
        /\ disk[fhist[i].to].day = fhist[i].day /\ fhist[i].day > 1

\* C15: a Write called when the last create has failed (p.file is nil) does
\* not report success; the claim asks for the writer-unavailable error.
C15_FailFastAfterFailedRotation ==
    \A i \in 1..Len(fhist) :
        (fhist[i].at = "done" /\ fhist[i].nofile) => fhist[i].ret # "nil"

\* The directory a sink writes to, and the sinks that have not been closed.
SinkDir(i) == absPath(sinks[i].dir)
OpenSinks == {i \in 1..Len(sinks) : sinks[i].closes = 0}

\* C16: no two file sinks are open on the same absolute directory.
C16_OneSinkPerDirectory ==
    \A i, j \in OpenSinks : SinkDir(i) = SinkDir(j) => i = j

\* C17: no file sink is closed twice, and once the router's Close has left
\* every slot nil every file sink made has been closed once.
C17_CloseOnceEach ==
    /\ \A i \in 1..Len(sinks) : sinks[i].closes <= 1
    /\ (\A k \in DOMAIN rfiles : rfiles[k] = Nil)
          => \A i \in 1..Len(sinks) : sinks[i].closes = 1


\* The inner calls composite call c made, in the order it made them.
InnerCalls(c) ==
    LET cs == SelectSeq(morder, LAMBDA x : x.call = c)
    IN  [i \in 1..Len(cs) |-> cs[i].sink]

\* C18: a composite sink's Write calls every inner sink's Write exactly once,
\* in configuration order, whatever the earlier inner sinks returned; it returns
\* nil iff every inner Write succeeded, and otherwise an error that carries the
\* error of every failing inner sink.
C18_WriteAllAggregate ==
    \A c \in 1..Len(mrets) :
        mrets[c].op = "Write" =>
            /\ InnerCalls(c) = [i \in 1..mn |-> i]
            /\ mrets[c].err.nil <=> mrets[c].fails = {}
            /\ \A i \in mrets[c].fails :
                  \E k \in 1..Len(mrets[c].err.msg) :
                      mrets[c].err.msg[k] = InnerMsgs[i]

\* The entries on the free-list: entryList and what next chains to it.
RECURSIVE FreeFrom(_, _)
FreeFrom(e, k) ==
    IF e = Nil \/ k = 0 THEN {} ELSE {e} \cup FreeFrom(next[e], k - 1)

FreeList == FreeFrom(entryList, MaxObj)

\* C19: an entry released with more than 256 bytes of content is not on the
\* free-list, so getEntry (getBuffer) never hands it out again.
C19_LongEntriesNotPooled ==
    \A e \in FreeList : ent[e].len <= PoolCeiling

\* An entry of more than 256 bytes has been written and released, and a later
\* call has acquired another entry.
C19_Witness ==
    \E e, e2 \in 1..nobj :
        /\ ent[e].len > PoolCeiling
        /\ ent[e].rec \in WrittenRecs
        /\ \A t \in Threads : cur[t] # e
        /\ e \notin FreeList
        /\ e2 # e /\ ent[e2].rec > ent[e].rec

\* Two characters that are the same letter in either case: equal, or a small
\* letter and its capital (the capital of U+0131 is I).
SameLetter(a, b) ==
    \/ a = b
    \/ \E i \in 1..Len(Lowers) : {a, b} = {Lowers[i], Uppers[i]}
    \/ {a, b} = {DotlessI, "I"}

EqualFold(s, n) ==
    Len(s) = Len(n) /\ \A i \in 1..Len(n) : SameLetter(s[i], n[i])

\* The string given is the name, the abbreviation or the numeric literal of
\* the level, in any case.
Names(lv) ==
    \/ EqualFold(pin, LevelNames[lv + 1])
    \/ EqualFold(pin, <<LevelNames[lv + 1][1]>>)
    \/ pin = <<Digits[lv + 1]>>

\* C20: ParseLevel returns (lv, true) for the name, abbreviation or numeric
\* literal of level lv in any case and (INFO, false) for every other string,
\* never panicking; MustParseLevel returns ParseLevel's level when it succeeds
\* and panics exactly when ParseLevel returns false.
C20_ParseLevel ==
    /\ pres.op = "ParseLevel" =>
          /\ ~pres.panic
          /\ \A lv \in FATAL..TRACE : Names(lv) => pres.lv = lv /\ pres.ok
          /\ (\A lv \in FATAL..TRACE : ~Names(lv)) =>
                pres.lv = INFO /\ ~pres.ok
    /\ pres.op = "MustParseLevel" =>
          /\ pres.panic <=> ~ParseLevel(pin).ok
          /\ ~pres.panic => pres.lv = ParseLevel(pin).lv

\* A name in mixed case has been parsed to its level.
C20_Witness ==
    /\ pres.op = "ParseLevel" /\ pres.ok /\ pres.lv = TRACE
    /\ pin = <<"T", "r", "a", "c", "e">>

\* The calls at a level made while no level had ever been specified.
DefaultCalls == {i \in 1..Len(ghist) : ghist[i].op = "log" /\ ~ghist[i].leveled}

\* C21: while no level has been specified, however logging was started, the
\* threshold is INFO: calls at INFO, WARN, ERROR and FATAL are written and calls
\* at DEBUG and TRACE are not.
C21_DefaultLevelInfo ==
    \A i \in DefaultCalls :
        ghist[i].written <=>
            ghist[i].lv <= (IF gl.api = "printer" THEN LvINFO ELSE INFO)

\* The provider string is empty or names a type that is not registered.
BadProviders(s) ==
    s = <<>> \/ \E typ \in usedTypes(Split(s)) : typ \notin Registered

\* C22: Init with an empty provider string or with an unregistered provider
\* type returns an error, does not end the process and leaves the global
\* logger as it was, installed and running.
C22_InitErrorKeepsLogger ==
    \A i \in 1..Len(ghist) :
        (ghist[i].op = "Init" /\ BadProviders(ghist[i].s)) =>
            /\ ghist[i].err # "nil"
            /\ ~ghist[i].now.exited
            /\ ghist[i].now = ghist[i].was

\* Init with a registered and an unregistered type has failed while a logger
\* installed by an earlier Init was running.
C22_Witness ==
    \E i \in 1..Len(ghist) :
        /\ ghist[i].op = "Init" /\ ghist[i].s = <<"console", "/", "nope">>
        /\ ghist[i].err # "nil"
        /\ ghist[i].was.gen = 1 /\ ghist[i].was.running
        /\ gl.gen = 1 /\ gl.running

\* C23: SetLevelFromString(s) returns the level parsed from s, INFO for a
\* string that names no level, and sets the global threshold to it: GetLevel()
\* called next returns the same value.
C23_SetLevelFromString ==
    \A i \in 1..Len(ghist) :
        ghist[i].op = "SetLevelFromString" =>
            /\ ghist[i].ret = (IF ParseLevel(ghist[i].s).ok
                               THEN ParseLevel(ghist[i].s).lv ELSE INFO)
            /\ (i < Len(ghist) /\ ghist[i + 1].op = "GetLevel") =>
                  ghist[i + 1].ret = ghist[i].ret

\* The threshold was TRACE, a string that names no level was given, and
\* GetLevel() then returned INFO.
C23_Witness ==
    /\ Len(ghist) = 3
    /\ ghist[1].op = "SetLevelFromString" /\ ghist[1].ret = TRACE
    /\ ghist[2].op = "SetLevelFromString" /\ ~ParseLevel(ghist[2].s).ok
    /\ ghist[3].op = "GetLevel" /\ ghist[3].ret = INFO

\* The branch steps of the chain, and the branch a step belongs to: the last
\* branch step at or before it.
Branches == {j \in 1..Len(ichain) : ichain[j].step # "log"}
BranchOf(k) == CHOOSE b \in Branches : b <= k /\ \A j \in Branches : j <= k => j <= b
FirstTrue(b) == ichain[b].c /\ \A j \in Branches : j < b => ~ichain[j].c

\* C24: in a chain If, ElseIf..., Else a log call is emitted exactly on the
\* first branch whose condition is true (Else counts as true), so at most one
\* branch logs and no branch after a taken one does.
C24_FirstTrueBranchLogs ==
    \A k \in 1..Len(ichain) :
        ichain[k].step = "log" => (ichain[k].emitted <=> FirstTrue(BranchOf(k)))

\* If(false), a true ElseIf that logged, then a later branch with a true
\* condition whose log call was not emitted.
C24_Witness ==
    /\ Len(ichain) = 5
    /\ ichain[1].step = "If" /\ ~ichain[1].c
    /\ ichain[2].step = "ElseIf" /\ ichain[2].c
    /\ ichain[3].step = "log" /\ ichain[3].emitted
    /\ ichain[4].step # "log" /\ ichain[4].c
    /\ ichain[5].step = "log" /\ ~ichain[5].emitted

\* C25: a producer of a call below FATAL that waits to put its entry on the
\* bounded queue comes back (at the latest when its timeout has passed), unless
\* the process ends first.
C25_EnqueueReturns ==
    \A t \in Callers :
        (pc[t] = "lg_send" /\ t \notin fatal) ~> (pc[t] # "lg_send" \/ ~Alive)
\* The records the workers have passed to Write, in order.
RECURSIVE ByWorkers(_)
ByWorkers(s) ==
    IF s = <<>> THEN <<>>
    ELSE IF Head(s).by \in Workers THEN <<Head(s).rec>> \o ByWorkers(Tail(s))
    ELSE ByWorkers(Tail(s))

IsPrefix(s, u) == Len(s) <= Len(u) /\ \A i \in 1..Len(s) : s[i] = u[i]

\* C26: the records the worker passes to Write are, in order, the records
\* pushed onto the queue: first in first out, none twice, none skipped.
C26_WorkerWritesFifo == async => IsPrefix(ByWorkers(written), enq)

\* The same while the engine has never had a second worker.
C26_FifoOneWorker == (async /\ nWorkers <= 1) => IsPrefix(ByWorkers(written), enq)
\* C27: while a worker is inside the sink's Write the queue lock is free, so
\* a producer at its push is not kept waiting by the sink.
C27_NoQueueLockInWrite ==
    \A w \in Workers : w \in inSink => queueMu = Nil

\* C27 witness: a worker is inside Write and the queue, which it emptied
\* before, holds an entry pushed meanwhile.
C27_Witness ==
    \E w \in Workers : w \in inSink /\ pc[w] = "in_write" /\ size(queue) > 0
\* C28: once Shutdown has closed the sink (Close has been called and has
\* returned), no step calls the sink's Write.
C28_NoWriteAfterClose ==
    [][(closeCalls >= 1 /\ \A t \in Callers : pc[t] # "in_close")
         => written' = written]_vars
\* C29: a Flush call that begins while the engine has no worker (synchronous
\* mode, before Start, after Shutdown) returns, unless the engine is started
\* meanwhile or the process ends.
C29_FlushReturnsWithoutWorker ==
    \A t \in Callers :
        (pc[t] = "fl_send" /\ running = 0 /\ LiveWorkers = {})
            ~> (pc[t] = "done_flush" \/ running = 1 \/ ~Alive)
\* C30: when no Write is in progress and the sink has an open file that its
\* writer writes to, currentSize is the number of bytes handed to that file
\* since it was opened: those that reached it, the banner first, and those in
\* the writer's buffer.  A rotation starts the count anew, whether or not the
\* old file could be flushed and closed.
C30_CurrentSizeIsBytesHanded ==
    (/\ fcall.at = "idle" /\ f.file # Nil /\ f.writer.to = f.file
     /\ disk[f.file].open /\ ~f.writer.err)
    => f.currentSize = disk[f.file].bytes + f.writer.buf
\* A step has made a rotation: only rotate assigns fileIndex and createdTime,
\* and it changes one of them.
Rotated == <<f.fileIndex, f.createdTime>>' # <<f.fileIndex, f.createdTime>>

\* The name of file i of disk carries an index exactly when its index is
\* greater than 0, and then that index.
SuffixIffPositive(i) ==
    /\ Len(disk[i].name) = 3 <=> disk[i].index > 0
    /\ Len(disk[i].name) = 3 => disk[i].name[3] = disk[i].index

\* C31: a rotation on the day of the previous file's creation makes the index
\* (index + 1) mod 1000, a rotation on another day makes it 0; the index lies
\* in 0..999; a file's name carries the index only when it is greater than 0.
C31_RotationIndex ==
    /\ [](f.fileIndex \in 0..999)
    /\ [](\A i \in 1..Len(disk) : SuffixIffPositive(i))
    /\ [][Rotated => f'.fileIndex = IF f'.createdTime = f.createdTime
                                    THEN (f.fileIndex + 1) % 1000 ELSE 0]_vars

\* C31 witness: on one day the file of index 999 has been followed by a file
\* of index 0, whose name has no index, and that by the file of index 1.
C31_Witness ==
    \E i, j, k \in 1..Len(disk) :
        /\ i < j /\ j < k
        /\ disk[i].day = disk[j].day /\ disk[j].day = disk[k].day
        /\ disk[i].index = 999 /\ disk[j].index = 0 /\ disk[k].index = 1
        /\ Len(disk[j].name) = 2 /\ Len(disk[k].name) = 3
\* C32: a Write call in which a rotation failed, the one for a new day or the
\* one for the size, returns an error.
C32_RotationErrorReturned ==
    \A i \in 1..Len(fhist) :
        (fhist[i].at = "done" /\ fhist[i].rotErr) => fhist[i].ret # "nil"
\* C33: the flush goroutine is never in its critical section while a Write is
\* under way (Close and the rotations inside Write are steps of the holder of
\* p.mu).
C33_TickExcludesWrite == ~(tick = "in" /\ fcall.at # "idle")

\* C33 witness: the goroutine holds p.mu with written set and bytes buffered,
\* while the application could call Write.
C33_Witness ==
    tick = "in" /\ f.written /\ f.writer.buf > 0 /\ Len(fhist) < MaxWrites
\* The step is the body of a tick of the flush goroutine.
TickStep == tick = "in" /\ tick' = "idle"

\* C34: a tick that finds bytes accepted by Write still buffered puts them all
\* into the file the writer was made for, and a tick that finds written unset
\* flushes nothing.
C34_TickFlushesAccepted ==
    [][TickStep =>
          /\ (f.written /\ f.writer.buf > 0) =>
                /\ f'.writer.buf = 0
                /\ disk'[f.writer.to].bytes = disk[f.writer.to].bytes + f.writer.buf
          /\ ~f.written => (f'.writer = f.writer /\ disk' = disk)]_vars
\* The absolute directory configured for level lv of the MultiFile.
DirOf(lv) == abs(configForLevel(ropts, lv).Dir)

\* C35: the MultiFile makes a file sink only in a Write that finds no sink of
\* the level's directory in its slots, and a Write at level lv goes to one
\* sink, whose directory is the one configured for lv.
C35_LazyOneSinkPerDirectory ==
    /\ [](\A i \in 1..Len(rhist) :
             (rhist[i].op = "Write" /\ rhist[i].ret = "nil")
                => abs(sinks[rhist[i].to].dir) = DirOf(rhist[i].lv))
    /\ [][Len(sinks') > Len(sinks) =>
             /\ Len(rhist') = Len(rhist) + 1 /\ rhist'[Len(rhist')].op = "Write"
             /\ \A j \in 1..NumLevel :
                   rfiles[j] # Nil =>
                      abs(sinks[rfiles[j]].dir) # abs(sinks'[Len(sinks')].dir)]_vars

\* C36: a Write at a level outside FATAL..TRACE returns the out-of-range
\* error: it does not panic and makes no file sink.
C36_OutOfRangeError ==
    \A i \in 1..Len(rhist) :
        (rhist[i].op = "Write" /\ (rhist[i].lv < 0 \/ rhist[i].lv >= NumLevel))
            => rhist[i].ret = "errOutOfRange"
RECURSIVE EndsWithin(_, _)
EndsWithin(e, k) ==
    IF e = Nil THEN TRUE ELSE IF k = 0 THEN FALSE ELSE EndsWithin(next[e], k - 1)

\* The positions of worker w's batch that it has still to write.
BatchLeft(w) ==
    IF pc[w] = "write" THEN bi[w]..batch[w].n
    ELSE IF pc[w] = "in_write" THEN (bi[w] + 1)..batch[w].n
    ELSE {}

\* How many owners entry e has: the free-list, the positions of the pending
\* queue and of the batches being written, and the threads that hold it (a
\* producer filling or pushing it, a thread inside the sink's Write).
Owners(e) ==
    (IF e \in FreeList THEN 1 ELSE 0)
    + Cardinality({i \in 1..queue.in.n : At(arrs, queue.in, i) = e})
    + Cardinality({p \in UNION {{<<w, i>> : i \in BatchLeft(w)} : w \in Workers} :
                      At(arrs, batch[p[1]], p[2]) = e})
    + Cardinality({t \in Threads : cur[t] = e})

\* C38: no entry has two owners at once, and no entry is on the free-list
\* twice.
C38_OneOwner ==
    /\ \A e \in 1..nobj : Owners(e) <= 1
    /\ EndsWithin(entryList, MaxObj)
====
